---------------------------- MODULE Spec2Model ----------------------------
(***************************************************************************)
(* A model of the PDF table engine and the structural PDF splitter of      *)
(* kreuzberg (crates/kreuzberg/src/pdf).                                   *)
(*                                                                         *)
(* Coordinates are f64 values, written here as non-negative integers in    *)
(* PDF points (0, 50, 100, 150 as in the unit tests).  For non-negative    *)
(* f64 the order of the bit patterns (to_bits) is the numeric order, so a  *)
(* bit pattern is written as the number itself.  One more value, Tiny,     *)
(* stands for an f64 such as 1e-17: positive, not the same bit pattern as  *)
(* 0.0, and closer to 0.0 than f64::EPSILON.                               *)
(*                                                                         *)
(* Rust indices are 0-based; sequences here are 1-based.                   *)
(***************************************************************************)
EXTENDS Integers, Sequences, FiniteSets, TLC

VARIABLES
    \* ---- table pipeline (table_geometry.rs, table_finder.rs)
    edges,      \* the edge list handed to the pipeline
    tol,        \* intersection tolerance (x_tolerance = y_tolerance)
    clip,       \* clip rectangle of the current run
    pc,         \* next stage of the current run
    clipped,    \* clip_edges(edges, clip)
    inter,      \* HashMap<(u64,u64), IntersectionEdges>
    order,      \* iteration order of inter.keys() in this run
    cells,      \* Vec<Bbox> from intersections_to_cells (or given)
    tables,     \* Vec<DetectedTable>
    rows,       \* rows() of every table
    run,        \* 1 = first invocation, 2 = second invocation
    prev,       \* what the first invocation returned
    \* ---- structural split (split.rs)
    document,   \* the PDF handed to the call: what it is and how many pages
    password,   \* Option<&str> of the call
    page_count, \* doc.get_pages().len() once the document is loaded
    ranges,     \* the PageRange list of the call
    ri,         \* loop position in `for range in ranges`
    results,    \* Vec of parts built so far (a part = its page numbers)
    outcome,    \* "running", or the value returned to the caller
    op,         \* which entry point was called: "ranges", "pages" or "chunks"
    chunk_size, \* chunk_size: u32 of split_pdf_into_chunks_with_password
    start,      \* `let mut start = 1u32` of the chunk loop
    overflow_checks, \* build profile: TRUE panics on integer overflow, FALSE wraps
    \* ---- CSV output (types/tables.rs)
    csv_cells,  \* Table::cells, a Vec<Vec<String>>; a String is a sequence of chars
    csv_text,   \* the String returned by to_csv
    csv_read,   \* what a reader of csv_text gets back
    csv_pc,     \* "idle", "write", "read" or "done"
    \* ---- table emission (extractors/pdf/extraction.rs)
    doc_pages,  \* per page: what find_tables, the text extraction and the
                \* word clustering return on it
    page_index, \* position of `for (page_index, page) in document.pages()`
    all_tables, \* Vec<Table> built so far
    fallback_pages, \* page numbers on which the clustering fallback ran
    ex_pc,      \* "idle", "pages" or "done"
    \* ---- extractor fallback (core/extractor/file.rs, legacy.rs)
    entry,      \* "file", "bytes" or "sync": which of the three functions runs
    prelude,    \* what happens before the loop (MIME check, registry)
    extractors, \* the extractor list of the MIME type, in registry order
    pipeline_ok, \* whether run_pipeline succeeds on an extracted result
    ei,         \* position of `for extractor in extractors`
    invoked,    \* indices of the extractors whose extract_* was called, in order
    last_error, \* Option<KreuzbergError>
    fb_result,  \* the Result returned by the function
    \* ---- clustering (table_clustering.rs)
    xs,         \* the values handed to cluster_list
    tolerance,  \* its tolerance
    clusters,   \* the Vec<Vec<f64>> it returns
    cluster_pc, \* "idle", "call" or "done"
    \* ---- edge joining (table_geometry.rs)
    group, \* the collinear edges handed to join_edge_group
    join_tolerance, \* its tolerance
    joined, \* the Vec<Edge> it returns
    join_pc, \* "idle", "call" or "done"
    \* ---- edge extraction (table_edges.rs)
    segments, \* path_obj.segments(): type, x, y and close flag of each
    path_edges, \* the Vec<Edge> returned by extract_edges_from_path
    path_pc, \* "idle", "call" or "done"
    \* ---- cell text (table_finder.rs)
    chars_data, \* Vec<CharPos> of the page
    cell_text, \* the plain String of the cell, a sequence of chars
    text_pc, \* "idle", "call" or "done"
    \* ---- text blocks (hierarchy.rs)
    chars, \* the Vec<CharData> handed to merge_chars_into_blocks
    blocks, \* its local `blocks`: the characters of each block, as absorbed
    merged, \* the Vec<TextBlock> it returns
    remerged, \* what it returns when called on its own result
    merge_pc \* "idle", "call", "again" or "done"

pipeVars  == <<edges, tol, clip, pc, clipped, inter, order, cells, tables, rows, run, prev>>
splitVars == <<document, password, page_count, ranges, ri, results, outcome,
               op, chunk_size, start, overflow_checks>>
csvVars   == <<csv_cells, csv_text, csv_read, csv_pc>>
emitVars  == <<doc_pages, page_index, all_tables, fallback_pages, ex_pc>>
fbVars    == <<entry, prelude, extractors, pipeline_ok, ei, invoked, last_error, fb_result>>
clusterVars == <<xs, tolerance, clusters, cluster_pc>>
joinVars == <<group, join_tolerance, joined, join_pc>>
pathVars == <<segments, path_edges, path_pc>>
textVars == <<chars_data, cell_text, text_pc>>
mergeVars == <<chars, blocks, merged, remerged, merge_pc>>
fnVars    == <<clusterVars, joinVars, pathVars, textVars, mergeVars>>
fnVarsButCluster == <<joinVars, pathVars, textVars, mergeVars>>
fnVarsButJoin == <<clusterVars, pathVars, textVars, mergeVars>>
fnVarsButPath == <<clusterVars, joinVars, textVars, mergeVars>>
fnVarsButText == <<clusterVars, joinVars, pathVars, mergeVars>>
fnVarsButMerge == <<clusterVars, joinVars, pathVars, textVars>>
restVars  == <<csvVars, emitVars, fbVars, fnVars>>
vars      == <<pipeVars, splitVars, restVars>>

---------------------------------------------------------------------------
(* Bounds of the model and values taken from the source.                   *)

\* how many edges of a drawing may be left out of the edge list
MaxDrop == 2
\* how many rotations of the key order the hash map may show
MaxShift == 0
\* longest hand-made cell list
MaxCells == 4
\* largest document, longest range list
MaxPages == 2
MaxRanges == 2
\* bits of the model's u32; documents stay below half its range, as real
\* documents stay below 2^31 pages
U32Bits == 3

\* the grid pitch and the tolerance of the unit tests
Pitch == 50
TestTol == 1
\* see the header: an f64 within f64::EPSILON of 0.0 that is not 0.0
Tiny == 1

Abs(n) == IF n < 0 THEN -n ELSE n
Min2(a, b) == IF a <= b THEN a ELSE b
Max2(a, b) == IF a >= b THEN a ELSE b
SetMin(S) == CHOOSE m \in S : \A n \in S : m <= n

\* Rust's stable sort_by, by its contract: the permutation that orders by
\* Less and keeps the input order of elements that compare equal.
SortBy(seq, Less(_, _)) ==
    LET n == Len(seq)
        rank(i) == 1 + Cardinality({j \in 1..n :
                        \/ Less(seq[j], seq[i])
                        \/ (~Less(seq[i], seq[j]) /\ j < i)})
    IN  [k \in 1..n |-> seq[CHOOSE i \in 1..n : rank(i) = k]]

RECURSIVE Concat(_)
Concat(ss) == IF ss = <<>> THEN <<>> ELSE Head(ss) \o Concat(Tail(ss))

Range(seq) == {seq[i] : i \in DOMAIN seq}

---------------------------------------------------------------------------
(* table_geometry.rs                                                       *)

EdgeHorizontal(x0, x1, y, t) ==
    [x0 |-> x0, x1 |-> x1, top |-> y, bottom |-> y, width |-> x1 - x0,
     height |-> 0, orientation |-> "Horizontal", edge_type |-> t]

EdgeVertical(x, top, bottom, t) ==
    [x0 |-> x, x1 |-> x, top |-> top, bottom |-> bottom, width |-> 0,
     height |-> bottom - top, orientation |-> "Vertical", edge_type |-> t]

\* a clip whose tests are inverted: keeps what lies outside
ClipEdgeOutside(edge, c) ==
    LET cx0 == c[1]  ctop == c[2]  cx1 == c[3]  cbottom == c[4] IN
    IF edge.orientation = "Horizontal"
    THEN IF edge.top >= ctop /\ edge.top <= cbottom THEN <<>> ELSE <<edge>>
    ELSE IF edge.x0 >= cx0 /\ edge.x0 <= cx1 THEN <<>> ELSE <<edge>>

\* a clip that is never applied
ClipEdgeNoop(edge, c) == <<edge>>

\* the closure of clip_edges' filter_map: None is <<>>, Some(e) is <<e>>
ClipEdge(edge, c) ==
    LET cx0 == c[1]  ctop == c[2]  cx1 == c[3]  cbottom == c[4] IN
    IF edge.orientation = "Horizontal"
    THEN IF edge.top < ctop \/ edge.top > cbottom THEN <<>>
         ELSE LET new_x0 == Max2(edge.x0, cx0)
                  new_x1 == Min2(edge.x1, cx1)
              IN  IF new_x0 >= new_x1 THEN <<>>
                  ELSE <<EdgeHorizontal(new_x0, new_x1, edge.top, edge.edge_type)>>
    ELSE IF edge.x0 < cx0 \/ edge.x0 > cx1 THEN <<>>
         ELSE LET new_top == Max2(edge.top, ctop)
                  new_bottom == Min2(edge.bottom, cbottom)
              IN  IF new_top >= new_bottom THEN <<>>
                  ELSE <<EdgeVertical(edge.x0, new_top, new_bottom, edge.edge_type)>>

clip_edges(es, c) == Concat([i \in 1..Len(es) |-> ClipEdge(es[i], c)])

---------------------------------------------------------------------------
(* table_finder.rs: edges_to_intersections                                 *)

Crosses(v, h, x_tolerance, y_tolerance) ==
    /\ v.top <= h.top + y_tolerance
    /\ v.bottom >= h.top - y_tolerance
    /\ v.x0 >= h.x0 - x_tolerance
    /\ v.x0 <= h.x1 + x_tolerance

\* the (v_idx, h_idx) pairs for which the loop body runs, in loop order
HitSeq(es, x_tolerance, y_tolerance) ==
    LET n == Len(es)
        all == [k \in 1..(n * n) |-> <<((k - 1) \div n) + 1, ((k - 1) % n) + 1>>]
        Hit(pr) == /\ es[pr[1]].orientation = "Vertical"
                   /\ es[pr[2]].orientation = "Horizontal"
                   /\ Crosses(es[pr[1]], es[pr[2]], x_tolerance, y_tolerance)
    IN  SelectSeq(all, Hit)

edges_to_intersections(es, x_tolerance, y_tolerance) ==
    LET hits == HitSeq(es, x_tolerance, y_tolerance)
        Vertex(pr) == <<es[pr[1]].x0, es[pr[2]].top>>
        keys == {Vertex(hits[k]) : k \in 1..Len(hits)}
        At(p) == LET AtP(pr) == Vertex(pr) = p IN SelectSeq(hits, AtP)
    IN  [p \in keys |->
            [vertical   |-> [k \in 1..Len(At(p)) |-> At(p)[k][1]],
             horizontal |-> [k \in 1..Len(At(p)) |-> At(p)[k][2]]]]

---------------------------------------------------------------------------
(* table_finder.rs: intersections_to_cells                                 *)

edge_connects(ix, p1, p2) ==
    IF p1 \notin DOMAIN ix THEN FALSE
    ELSE IF p2 \notin DOMAIN ix THEN FALSE
    ELSE IF p1[1] = p2[1]
         THEN Range(ix[p1].vertical) \cap Range(ix[p2].vertical) # {}
    ELSE IF p1[2] = p2[2]
         THEN Range(ix[p1].horizontal) \cap Range(ix[p2].horizontal) # {}
    ELSE FALSE

PointLess(a, b) == a[1] < b[1] \/ (a[1] = b[1] /\ a[2] < b[2])

\* points.sort() left out: the points stay in hash-map order
KeepOrder(keys) == keys

\* points.sort()
SortPoints(keys) == SortBy(keys, PointLess)

\* the inner loop without its break: every closing right_pt emits a cell
RECURSIVE FirstCellNoBreak(_, _, _, _)
FirstCellNoBreak(ix, pt, below_pt, right) ==
    IF right = <<>> THEN <<>>
    ELSE LET right_pt == Head(right)
             bottom_right == <<right_pt[1], below_pt[2]>>
             more == FirstCellNoBreak(ix, pt, below_pt, Tail(right))
         IN  IF /\ edge_connects(ix, pt, right_pt)
                /\ bottom_right \in DOMAIN ix
                /\ edge_connects(ix, bottom_right, right_pt)
                /\ edge_connects(ix, bottom_right, below_pt)
             THEN <<<<pt[1], pt[2], bottom_right[1], bottom_right[2]>>>> \o more
             ELSE more

\* the inner `for &right_pt in &right` loop, up to its break
RECURSIVE FirstCell(_, _, _, _)
FirstCell(ix, pt, below_pt, right) ==
    IF right = <<>> THEN <<>>
    ELSE LET right_pt == Head(right)
             bottom_right == <<right_pt[1], below_pt[2]>>
         IN  IF ~edge_connects(ix, pt, right_pt)
             THEN FirstCell(ix, pt, below_pt, Tail(right))
             ELSE IF /\ bottom_right \in DOMAIN ix
                     /\ edge_connects(ix, bottom_right, right_pt)
                     /\ edge_connects(ix, bottom_right, below_pt)
                  THEN <<<<pt[1], pt[2], bottom_right[1], bottom_right[2]>>>>
                  ELSE FirstCell(ix, pt, below_pt, Tail(right))

\* the body of `for i in 0..n`
CellsAt(ix, points, i) ==
    LET pt == points[i]
        rest == SubSeq(points, i + 1, Len(points))
        SameX(p) == p[1] = pt[1]
        SameY(p) == p[2] = pt[2]
        below == SelectSeq(rest, SameX)
        right == SelectSeq(rest, SameY)
    IN  Concat([b \in 1..Len(below) |->
                  IF ~edge_connects(ix, pt, below[b]) THEN <<>>
                  ELSE FirstCell(ix, pt, below[b], right)])

\* keys: intersections.keys() in the order the hash map yields them
intersections_to_cells(ix, keys) ==
    LET points == SortPoints(keys)
    IN  Concat([i \in 1..Len(points) |-> CellsAt(ix, points, i)])

---------------------------------------------------------------------------
(* table_finder.rs: cells_to_tables                                        *)

bbox_corners(bbox) ==
    {<<bbox[1], bbox[2]>>, <<bbox[1], bbox[4]>>,
     <<bbox[3], bbox[2]>>, <<bbox[3], bbox[4]>>}

\* one `remaining.retain(..)` pass; st.kept collects what retain keeps
RECURSIVE RetainPass(_, _)
RetainPass(remaining, st) ==
    IF remaining = <<>> THEN st
    ELSE LET cell == Head(remaining)
             corners == bbox_corners(cell)
             take == [current_cells   |-> Append(st.current_cells, cell),
                      current_corners |-> st.current_corners \cup corners,
                      kept            |-> st.kept]
             keep == [st EXCEPT !.kept = Append(st.kept, cell)]
         IN  IF st.current_cells = <<>>
             THEN RetainPass(Tail(remaining), take)
             ELSE IF corners \cap st.current_corners # {}
                  THEN RetainPass(Tail(remaining), take)
                  ELSE RetainPass(Tail(remaining), keep)

\* the inner `loop` cut after its first pass
GrowOnce(st) ==
    RetainPass(st.kept, [st EXCEPT !.kept = <<>>])

\* the inner `loop { .. }`: passes until one absorbs nothing
RECURSIVE GrowTable(_)
GrowTable(st) ==
    LET initial_count == Len(st.current_cells)
        after == RetainPass(st.kept, [st EXCEPT !.kept = <<>>])
    IN  IF Len(after.current_cells) = initial_count THEN after
        ELSE GrowTable(after)

CellLess(a, b) == a[2] < b[2] \/ (a[2] = b[2] /\ a[1] < b[1])

TableTop(t)  == SetMin({t[i][2] : i \in 1..Len(t)})
TableLeft(t) == SetMin({t[i][1] : i \in 1..Len(t)})
TableLess(a, b) ==
    \/ TableTop(a) < TableTop(b)
    \/ (TableTop(a) = TableTop(b) /\ TableLeft(a) < TableLeft(b))

\* the outer `while !remaining.is_empty()`
RECURSIVE GroupCells(_, _)
GroupCells(remaining, found) ==
    IF remaining = <<>> THEN found
    ELSE LET g == GrowTable([current_cells |-> <<>>, current_corners |-> {},
                             kept |-> remaining])
         IN  GroupCells(g.kept,
                        IF Len(g.current_cells) > 1
                        THEN Append(found, SortBy(g.current_cells, CellLess))
                        ELSE found)

\* tables.sort_by(..) left out
TablesAsFound(groups) == groups

\* tables.sort_by(..)
SortTables(groups) == SortBy(groups, TableLess)

cells_to_tables(cs) == SortTables(GroupCells(cs, <<>>))

\* find_tables, step 4: each cell group with its bounding box
DetectedTable(cell_group) ==
    [cells |-> cell_group,
     bbox  |-> <<SetMin({cell_group[i][1] : i \in 1..Len(cell_group)}),
                 SetMin({cell_group[i][2] : i \in 1..Len(cell_group)}),
                 -SetMin({-cell_group[i][3] : i \in 1..Len(cell_group)}),
                 -SetMin({-cell_group[i][4] : i \in 1..Len(cell_group)})>>]

---------------------------------------------------------------------------
(* table_finder.rs: DetectedTable::rows                                    *)

\* (a - b).abs() < f64::EPSILON.  Of the coordinates of this model only
\* 0 and Tiny are two different values that close to each other.
NearEq(a, b) == a = b \/ ({a, b} \subseteq {0, Tiny})

\* Vec::dedup_by: an element is dropped when same_bucket(it, last kept)
RECURSIVE DedupBy(_, _)
DedupBy(seq, acc) ==
    IF seq = <<>> THEN acc
    ELSE IF acc # <<>> /\ NearEq(Head(seq), acc[Len(acc)])
         THEN DedupBy(Tail(seq), acc)
         ELSE DedupBy(Tail(seq), Append(acc, Head(seq)))

NumLess(a, b) == a < b

None == <<>>

DetectedTableRows(cs) ==
    IF cs = <<>> THEN <<>>
    ELSE LET x_values == DedupBy(SortBy([i \in 1..Len(cs) |-> cs[i][1]], NumLess), <<>>)
             tops == {cs[i][2] : i \in 1..Len(cs)}
             \* BTreeMap keys in ascending order
             top_seq == [k \in 1..Cardinality(tops) |->
                            CHOOSE t \in tops : Cardinality({u \in tops : u < t}) = k - 1]
             RowCells(t) == LET AtTop(c) == c[2] = t IN SelectSeq(cs, AtTop)
             \* HashMap::from_iter: a later cell with the same x0 replaces an earlier one
             Lookup(row_cells, x) ==
                 LET AtX(c) == c[1] = x
                     hit == SelectSeq(row_cells, AtX)
                 IN  IF hit = <<>> THEN None ELSE hit[Len(hit)]
         IN  [k \in 1..Len(top_seq) |->
                [j \in 1..Len(x_values) |-> Lookup(RowCells(top_seq[k]), x_values[j])]]

---------------------------------------------------------------------------
(* Inputs of the table pipeline.                                           *)

H(x0, x1, y) == EdgeHorizontal(x0 * Pitch, x1 * Pitch, y * Pitch, "Line")
V(x, top, bottom) == EdgeVertical(x * Pitch, top * Pitch, bottom * Pitch, "Line")

\* the grid of test_intersections_basic / test_intersections_to_cells
Grid3 ==
    <<H(0, 2, 0), H(0, 2, 1), H(0, 2, 2), V(0, 0, 2), V(1, 0, 2), V(2, 0, 2)>>

\* two two-row columns side by side, joined only by a row below them
Bridge ==
    <<H(0, 1, 0), H(2, 3, 0), H(0, 1, 1), H(2, 3, 1), H(0, 3, 2), H(0, 3, 3),
      V(0, 0, 3), V(1, 0, 3), V(2, 0, 3), V(3, 0, 3)>>

\* a two-row column on the lower left and one on the upper right
Stagger ==
    <<V(0, 1, 3), V(1, 1, 3), H(0, 1, 1), H(0, 1, 2), H(0, 1, 3),
      V(2, 0, 2), V(3, 0, 2), H(2, 3, 0), H(2, 3, 1), H(2, 3, 2)>>

Drawings == {Grid3, Bridge, Stagger}

Without(d, D) == Concat([i \in 1..Len(d) |-> IF i \in D THEN <<>> ELSE <<d[i]>>])

EdgeLists ==
    {Without(d, D) : <<d, D>> \in
        {<<d, D>> \in Drawings \X SUBSET (1..10) :
            D \subseteq 1..Len(d) /\ Cardinality(D) <= MaxDrop}}

Tols == {TestTol, Pitch}

Page       == <<0, 0, 3 * Pitch, 3 * Pitch>>
Top        == <<0, 0, 3 * Pitch, 2 * Pitch>>
ZeroWidth  == <<Pitch, 0, Pitch, 3 * Pitch>>
ZeroHeight == <<0, Pitch, 3 * Pitch, Pitch>>
Inverted   == <<2 * Pitch, 2 * Pitch, Pitch, Pitch>>
ClipChoices == {Page, Top, ZeroWidth, ZeroHeight, Inverted}

Contained(c2, c1) ==
    c1[1] <= c2[1] /\ c1[2] <= c2[2] /\ c2[3] <= c1[3] /\ c2[4] <= c1[4]

Degenerate(c) == c[1] >= c[3] \/ c[2] >= c[4]

\* The orders in which a HashMap may yield a key set: the sorted order, its
\* rotations by up to MaxShift places, and the reverse of each.
Ascending(S) ==
    [k \in 1..Cardinality(S) |->
        CHOOSE p \in S : Cardinality({q \in S : PointLess(q, p)}) = k - 1]
Rotate(seq, k) ==
    [i \in 1..Len(seq) |-> seq[((i - 1 + k) % Len(seq)) + 1]]
Reverse(seq) == [i \in 1..Len(seq) |-> seq[Len(seq) + 1 - i]]
KeyOrders(S) ==
    IF S = {} THEN {<<>>}
    ELSE LET rot == {Rotate(Ascending(S), k) : k \in 0..MaxShift}
         IN  rot \cup {Reverse(r) : r \in rot}

NoPrev == [clip |-> <<>>, order |-> <<>>, n_inter |-> 0, cells |-> <<>>,
           tables |-> <<>>, rows |-> <<>>]

IdleOutcome == [kind |-> "idle", err |-> "", page |-> 0, parts |-> <<>>]

NoDocument == [kind |-> "plain", pages |-> 0]
NoPassword == "none"

SplitIdle ==
    /\ document = NoDocument
    /\ password = NoPassword
    /\ page_count = 0
    /\ ranges = <<>>
    /\ ri = 0
    /\ results = <<>>
    /\ outcome = IdleOutcome
    /\ op = "idle"
    /\ chunk_size = 0
    /\ start = 0
    /\ overflow_checks = FALSE

CsvIdle ==
    /\ csv_cells = <<>>
    /\ csv_text = <<>>
    /\ csv_read = <<>>
    /\ csv_pc = "idle"

EmitIdle ==
    /\ doc_pages = <<>>
    /\ page_index = 0
    /\ all_tables = <<>>
    /\ fallback_pages = {}
    /\ ex_pc = "idle"

NoError == [kind |-> "None", from |-> 0]
NoResult == [kind |-> "idle", error |-> NoError, by |-> 0]

FallbackIdle ==
    /\ entry = "idle"
    /\ prelude = "ok"
    /\ extractors = <<>>
    /\ pipeline_ok = TRUE
    /\ ei = 0
    /\ invoked = <<>>
    /\ last_error = NoError
    /\ fb_result = NoResult

ClusterIdle ==
    /\ xs = <<>>
    /\ tolerance = 0
    /\ clusters = <<>>
    /\ cluster_pc = "idle"

JoinIdle ==
    /\ group = <<>>
    /\ join_tolerance = 0
    /\ joined = <<>>
    /\ join_pc = "idle"

PathIdle ==
    /\ segments = <<>>
    /\ path_edges = <<>>
    /\ path_pc = "idle"

TextIdle ==
    /\ chars_data = <<>>
    /\ cell_text = <<>>
    /\ text_pc = "idle"

MergeIdle ==
    /\ chars = <<>>
    /\ blocks = <<>>
    /\ merged = <<>>
    /\ remerged = <<>>
    /\ merge_pc = "idle"

\* every function group but g is idle
FnIdleBut(g) ==
    /\ (g = "cluster" \/ ClusterIdle)
    /\ (g = "join" \/ JoinIdle)
    /\ (g = "path" \/ PathIdle)
    /\ (g = "text" \/ TextIdle)
    /\ (g = "merge" \/ MergeIdle)

---------------------------------------------------------------------------
(* The table pipeline, one action per stage.                               *)

Init ==
    /\ edges \in EdgeLists
    /\ tol \in Tols
    /\ clip \in ClipChoices
    /\ pc = "clip"
    /\ clipped = <<>>
    /\ inter = <<>>
    /\ order = <<>>
    /\ cells = <<>>
    /\ tables = <<>>
    /\ rows = <<>>
    /\ run = 1
    /\ prev = NoPrev
    /\ SplitIdle
    /\ CsvIdle /\ EmitIdle /\ FallbackIdle /\ FnIdleBut("none")

\* clip_edges
ClipStep ==
    /\ pc = "clip"
    /\ clipped' = clip_edges(edges, clip)
    /\ pc' = "intersect"
    /\ UNCHANGED <<edges, tol, clip, inter, order, cells, tables, rows, run, prev>>
    /\ UNCHANGED splitVars
    /\ UNCHANGED restVars

\* edges_to_intersections; the map's key order is the hasher's choice
IntersectStep ==
    /\ pc = "intersect"
    /\ inter' = edges_to_intersections(clipped, tol, tol)
    /\ order' \in KeyOrders(DOMAIN inter')
    /\ pc' = "cells"
    /\ UNCHANGED <<edges, tol, clip, clipped, cells, tables, rows, run, prev>>
    /\ UNCHANGED splitVars
    /\ UNCHANGED restVars

\* intersections_to_cells
CellsStep ==
    /\ pc = "cells"
    /\ cells' = intersections_to_cells(inter, order)
    /\ pc' = "tables"
    /\ UNCHANGED <<edges, tol, clip, clipped, inter, order, tables, rows, run, prev>>
    /\ UNCHANGED splitVars
    /\ UNCHANGED restVars

\* cells_to_tables and the DetectedTable of each group (find_tables, step 4)
TablesStep ==
    /\ pc = "tables"
    /\ tables' = LET groups == cells_to_tables(cells)
                 IN  [i \in 1..Len(groups) |-> DetectedTable(groups[i])]
    /\ pc' = "rows"
    /\ UNCHANGED <<edges, tol, clip, clipped, inter, order, cells, rows, run, prev>>
    /\ UNCHANGED splitVars
    /\ UNCHANGED restVars

\* DetectedTable::rows of every table
RowsStep ==
    /\ pc = "rows"
    /\ rows' = [i \in 1..Len(tables) |-> DetectedTableRows(tables[i].cells)]
    /\ pc' = "done"
    /\ UNCHANGED <<edges, tol, clip, clipped, inter, order, cells, tables, run, prev>>
    /\ UNCHANGED splitVars
    /\ UNCHANGED restVars

\* the caller runs the pipeline again on the same edges, with the same clip
\* or with one contained in it
Rerun ==
    /\ pc = "done"
    /\ run = 1
    /\ prev' = [clip |-> clip, order |-> order, n_inter |-> Cardinality(DOMAIN inter),
                cells |-> cells, tables |-> tables, rows |-> rows]
    /\ clip' \in {c \in ClipChoices : Contained(c, clip)}
    /\ run' = 2
    /\ pc' = "clip"
    /\ clipped' = <<>>
    /\ inter' = <<>>
    /\ order' = <<>>
    /\ cells' = <<>>
    /\ tables' = <<>>
    /\ rows' = <<>>
    /\ UNCHANGED <<edges, tol>>
    /\ UNCHANGED splitVars
    /\ UNCHANGED restVars

Next == ClipStep \/ IntersectStep \/ CellsStep \/ TablesStep \/ RowsStep \/ Rerun

Spec == Init /\ [][Next]_vars

---------------------------------------------------------------------------
(* cells_to_tables and rows() on cell lists a caller builds by hand.       *)

Far == <<4 * Pitch, 4 * Pitch, 5 * Pitch, 5 * Pitch>>
CellXSpans == {<<0, Pitch>>, <<Tiny, Pitch>>, <<Pitch, 2 * Pitch>>, <<2 * Pitch, 3 * Pitch>>}
CellYSpans == {<<0, Pitch>>, <<Pitch, 2 * Pitch>>}
CellUniverse ==
    {<<xr[1], yr[1], xr[2], yr[2]>> : <<xr, yr>> \in CellXSpans \X CellYSpans}
    \cup {<<0, 0, Pitch, 2 * Pitch>>, Far}

InitCells ==
    /\ cells \in UNION {[1..k -> CellUniverse] : k \in 0..MaxCells}
    /\ pc = "tables"
    /\ edges = <<>>
    /\ tol = TestTol
    /\ clip = Page
    /\ clipped = <<>>
    /\ inter = <<>>
    /\ order = <<>>
    /\ tables = <<>>
    /\ rows = <<>>
    /\ run = 1
    /\ prev = NoPrev
    /\ SplitIdle
    /\ CsvIdle /\ EmitIdle /\ FallbackIdle /\ FnIdleBut("none")

NextCells == TablesStep \/ RowsStep

SpecCells == InitCells /\ [][NextCells]_vars

---------------------------------------------------------------------------
(* split.rs: split_pdf_with_password                                       *)

PageRange(first, last) == [start |-> first, end |-> last]

Ok(parts) == [kind |-> "Ok", err |-> "", page |-> 0, parts |-> parts]
Err(err, page) == [kind |-> "Err", err |-> err, page |-> page, parts |-> <<>>]
Calling == [kind |-> "call", err |-> "", page |-> 0, parts |-> <<>>]
Running == [kind |-> "running", err |-> "", page |-> 0, parts |-> <<>>]

\* validate_range with the reversed-range test moved to the front
ValidateRangeReversedFirst(range, pages) ==
    IF range.start > range.end THEN Err("InvalidPdf", 0)
    ELSE IF range.start = 0 THEN Err("PageNotFound", 0)
    ELSE IF range.start > pages THEN Err("PageNotFound", range.start)
    ELSE IF range.end > pages THEN Err("PageNotFound", range.end)
    ELSE Ok(<<>>)

\* validate_range without the test of the end against the page count
ValidateRangeNoEndCheck(range, pages) ==
    IF range.start = 0 THEN Err("PageNotFound", 0)
    ELSE IF range.start > pages THEN Err("PageNotFound", range.start)
    ELSE IF range.start > range.end THEN Err("InvalidPdf", 0)
    ELSE Ok(<<>>)

validate_range(range, pages) ==
    IF range.start = 0 THEN Err("PageNotFound", 0)
    ELSE IF range.start > pages THEN Err("PageNotFound", range.start)
    ELSE IF range.end > pages THEN Err("PageNotFound", range.end)
    ELSE IF range.start > range.end THEN Err("InvalidPdf", 0)
    ELSE Ok(<<>>)

\* extract_pages with the filter turned round: the listed pages are deleted
ExtractPagesKeepRest(pages, pages_to_keep) ==
    LET Kept(p) == p \notin Range(pages_to_keep)
    IN  SelectSeq([p \in 1..pages |-> p], Kept)

\* extract_pages: the clone of the document with every page outside
\* pages_to_keep deleted; a part is written as the page numbers it holds
extract_pages(pages, pages_to_keep) ==
    LET Kept(p) == p \in Range(pages_to_keep)
    IN  SelectSeq([p \in 1..pages |-> p], Kept)

\* load_document with one error for every failed decryption
LoadDocumentOneError(pdf, pwd) ==
    IF pdf.kind = "garbage" THEN Err("InvalidPdf", 0)
    ELSE IF pdf.kind = "encrypted"
         THEN IF pwd = "right" THEN Ok(<<>>) ELSE Err("InvalidPassword", 0)
         ELSE Ok(<<>>)

\* load_document: the parse, then the password test of an encrypted file
load_document(pdf, pwd) ==
    IF pdf.kind = "garbage" THEN Err("InvalidPdf", 0)
    ELSE IF pdf.kind = "encrypted"
         THEN IF pwd # NoPassword
              THEN IF pwd = "right" THEN Ok(<<>>) ELSE Err("InvalidPassword", 0)
              ELSE Err("PasswordRequired", 0)
         ELSE Ok(<<>>)

\* the calls tried: (kind of file, password handed in)
LoadCases ==
    {<<"plain", NoPassword>>, <<"plain", "wrong">>, <<"encrypted", "right">>,
     <<"encrypted", "wrong">>, <<"encrypted", NoPassword>>, <<"garbage", NoPassword>>}

PipeIdle ==
    /\ edges = <<>>
    /\ tol = TestTol
    /\ clip = Page
    /\ pc = "idle"
    /\ clipped = <<>>
    /\ inter = <<>>
    /\ order = <<>>
    /\ cells = <<>>
    /\ tables = <<>>
    /\ rows = <<>>
    /\ run = 1
    /\ prev = NoPrev

InitSplit ==
    /\ \E lc \in LoadCases, n \in 0..MaxPages :
          /\ document = [kind |-> lc[1], pages |-> IF lc[1] = "garbage" THEN 0 ELSE n]
          /\ password = lc[2]
    /\ page_count = 0
    /\ ranges \in UNION {[1..k -> {PageRange(s, e) : s, e \in 0..(MaxPages + 1)}] :
                            k \in 0..MaxRanges}
    /\ ri = 0
    /\ results = <<>>
    /\ outcome = Calling
    /\ op = "ranges"
    /\ chunk_size = 0
    /\ start = 0
    /\ overflow_checks = FALSE
    /\ PipeIdle
    /\ CsvIdle /\ EmitIdle /\ FallbackIdle /\ FnIdleBut("none")

\* entry: the empty-list return, else load the document and count its pages
SplitCall ==
    /\ op = "ranges"
    /\ outcome.kind = "call"
    /\ IF ranges = <<>>
       THEN outcome' = Ok(<<>>) /\ UNCHANGED <<ri, page_count>>
       ELSE LET loaded == load_document(document, password)
            IN  IF loaded.kind = "Err"
                THEN outcome' = loaded /\ UNCHANGED <<ri, page_count>>
                ELSE /\ outcome' = Running
                     /\ page_count' = document.pages
                     /\ ri' = 1
    /\ results' = <<>>
    /\ UNCHANGED <<document, password, ranges>>
    /\ UNCHANGED <<op, chunk_size, start, overflow_checks>>
    /\ UNCHANGED pipeVars
    /\ UNCHANGED restVars

\* one turn of `for range in ranges`
SplitRange ==
    /\ op = "ranges"
    /\ outcome.kind = "running"
    /\ ri <= Len(ranges)
    /\ LET range == ranges[ri]
           checked == validate_range(range, page_count)
       IN  IF checked.kind = "Err"
           THEN /\ outcome' = checked
                /\ UNCHANGED <<ri, results>>
           ELSE /\ results' = Append(results,
                        extract_pages(page_count,
                            [k \in 1..(range.end - range.start + 1) |-> range.start + k - 1]))
                /\ ri' = ri + 1
                /\ UNCHANGED outcome
    /\ UNCHANGED <<document, password, page_count, ranges>>
    /\ UNCHANGED <<op, chunk_size, start, overflow_checks>>
    /\ UNCHANGED pipeVars
    /\ UNCHANGED restVars

\* Ok(results)
SplitReturn ==
    /\ op = "ranges"
    /\ outcome.kind = "running"
    /\ ri > Len(ranges)
    /\ outcome' = Ok(results)
    /\ UNCHANGED <<document, password, page_count, ranges, ri, results>>
    /\ UNCHANGED <<op, chunk_size, start, overflow_checks>>
    /\ UNCHANGED pipeVars
    /\ UNCHANGED restVars

NextSplit == SplitCall \/ SplitRange \/ SplitReturn

SpecSplit == InitSplit /\ [][NextSplit]_vars

---------------------------------------------------------------------------
(* split.rs: split_pdf_into_pages_with_password and                        *)
(* split_pdf_into_chunks_with_password                                     *)

U32Wrap == 2 ^ U32Bits
U32Max == U32Wrap - 1

Panic(msg) == [kind |-> "panic", err |-> msg, page |-> 0, parts |-> <<>>]

\* a + b and a - b on u32: the wrapped value, and whether it left the range
AddU32(a, b) == [val |-> (a + b) % U32Wrap, overflow |-> a + b > U32Max]
SubU32(a, b) == [val |-> (a - b + U32Wrap) % U32Wrap, overflow |-> a < b]

\* start..=end collected into a Vec<u32>
RangeInclusive(lo, hi) == [k \in 1..(hi - lo + 1) |-> lo + k - 1]

InitParts ==
    /\ \E lc \in LoadCases, n \in 0..MaxPages :
          /\ document = [kind |-> lc[1], pages |-> IF lc[1] = "garbage" THEN 0 ELSE n]
          /\ password = lc[2]
    /\ page_count = 0
    /\ ranges = <<>>
    /\ ri = 0
    /\ results = <<>>
    /\ outcome = Calling
    /\ \/ op = "pages" /\ chunk_size = 0 /\ overflow_checks = FALSE
       \/ op = "chunks" /\ chunk_size \in 0..U32Max /\ overflow_checks \in BOOLEAN
    /\ start = 0
    /\ PipeIdle
    /\ CsvIdle /\ EmitIdle /\ FallbackIdle /\ FnIdleBut("none")

\* split_pdf_into_pages_with_password: load_document and page_count
PagesCall ==
    /\ op = "pages"
    /\ outcome.kind = "call"
    /\ LET loaded == load_document(document, password)
       IN  IF loaded.kind = "Err"
           THEN outcome' = loaded /\ UNCHANGED <<ri, page_count>>
           ELSE /\ outcome' = Running
                /\ page_count' = document.pages
                /\ ri' = 1
    /\ results' = <<>>
    /\ UNCHANGED <<document, password, ranges, op, chunk_size, start, overflow_checks>>
    /\ UNCHANGED pipeVars
    /\ UNCHANGED restVars

\* one turn of `for page_num in 1..=page_count` (ri is page_num)
PagesStep ==
    /\ op = "pages"
    /\ outcome.kind = "running"
    /\ ri <= page_count
    /\ results' = Append(results, extract_pages(page_count, <<ri>>))
    /\ ri' = ri + 1
    /\ UNCHANGED <<document, password, page_count, ranges, outcome>>
    /\ UNCHANGED <<op, chunk_size, start, overflow_checks>>
    /\ UNCHANGED pipeVars
    /\ UNCHANGED restVars

PagesReturn ==
    /\ op = "pages"
    /\ outcome.kind = "running"
    /\ ri > page_count
    /\ outcome' = Ok(results)
    /\ UNCHANGED <<document, password, page_count, ranges, ri, results>>
    /\ UNCHANGED <<op, chunk_size, start, overflow_checks>>
    /\ UNCHANGED pipeVars
    /\ UNCHANGED restVars

\* split_pdf_into_chunks_with_password: the chunk_size test, load_document,
\* page_count, start = 1
ChunksCall ==
    /\ op = "chunks"
    /\ outcome.kind = "call"
    /\ IF chunk_size = 0
       THEN outcome' = Err("InvalidPdf", 0) /\ UNCHANGED <<start, page_count>>
       ELSE LET loaded == load_document(document, password)
            IN  IF loaded.kind = "Err"
                THEN outcome' = loaded /\ UNCHANGED <<start, page_count>>
                ELSE /\ outcome' = Running
                     /\ page_count' = document.pages
                     /\ start' = 1
    /\ results' = <<>>
    /\ UNCHANGED <<document, password, ranges, ri, op, chunk_size, overflow_checks>>
    /\ UNCHANGED pipeVars
    /\ UNCHANGED restVars

\* one turn of `while start <= page_count`:
\* end = (start + chunk_size - 1).min(page_count); start = end + 1
ChunksStep ==
    /\ op = "chunks"
    /\ outcome.kind = "running"
    /\ start <= page_count
    /\ LET sum == AddU32(start, chunk_size)
           dif == SubU32(sum.val, 1)
           end == Min2(dif.val, page_count)
           nxt == AddU32(end, 1)
       IN  IF overflow_checks /\ sum.overflow
           THEN outcome' = Panic("attempt to add with overflow")
                /\ UNCHANGED <<start, results>>
           ELSE IF overflow_checks /\ dif.overflow
           THEN outcome' = Panic("attempt to subtract with overflow")
                /\ UNCHANGED <<start, results>>
           ELSE IF overflow_checks /\ nxt.overflow
           THEN outcome' = Panic("attempt to add with overflow")
                /\ results' = Append(results,
                        extract_pages(page_count, RangeInclusive(start, end)))
                /\ UNCHANGED start
           ELSE /\ results' = Append(results,
                        extract_pages(page_count, RangeInclusive(start, end)))
                /\ start' = nxt.val
                /\ UNCHANGED outcome
    /\ UNCHANGED <<document, password, page_count, ranges, ri>>
    /\ UNCHANGED <<op, chunk_size, overflow_checks>>
    /\ UNCHANGED pipeVars
    /\ UNCHANGED restVars

ChunksReturn ==
    /\ op = "chunks"
    /\ outcome.kind = "running"
    /\ start > page_count
    /\ outcome' = Ok(results)
    /\ UNCHANGED <<document, password, page_count, ranges, ri, results>>
    /\ UNCHANGED <<op, chunk_size, start, overflow_checks>>
    /\ UNCHANGED pipeVars
    /\ UNCHANGED restVars

NextParts ==
    \/ PagesCall \/ PagesStep \/ PagesReturn
    \/ ChunksCall \/ ChunksStep \/ ChunksReturn

SpecParts == InitParts /\ [][NextParts]_vars

---------------------------------------------------------------------------
(* types/tables.rs: Table::to_csv, and a reader of its output              *)

\* longest table, counted in cells plus row ends
MaxItems == 4

Comma == ","
Quote == "\""
Newline == "\n"

\* str::contains(char)
Contains(str, ch) == \E i \in 1..Len(str) : str[i] = ch

\* cell.replace('"', "\"\"") that leaves the quotes as they are
ReplaceQuotesKeep(str) == str

\* cell.replace('"', "\"\"")
RECURSIVE ReplaceQuotes(_)
ReplaceQuotes(str) ==
    IF str = <<>> THEN <<>>
    ELSE (IF Head(str) = Quote THEN <<Quote, Quote>> ELSE <<Head(str)>>)
         \o ReplaceQuotes(Tail(str))

\* needs_quoting that forgets the line break
NeedsQuotingNoNewline(cell) == Contains(cell, Comma) \/ Contains(cell, Quote)

needs_quoting(cell) ==
    Contains(cell, Comma) \/ Contains(cell, Quote) \/ Contains(cell, Newline)

\* the body of `for (i, cell) in row.iter().enumerate()`; i is 1-based here
PushCell(csv, i, cell) ==
    LET sep == IF i > 1 THEN Append(csv, Comma) ELSE csv
    IN  IF needs_quoting(cell)
        THEN Append(Append(sep, Quote) \o ReplaceQuotes(cell), Quote)
        ELSE sep \o cell

RECURSIVE PushRow(_, _, _)
PushRow(csv, row, i) ==
    IF i > Len(row) THEN Append(csv, Newline)
    ELSE PushRow(PushCell(csv, i, row[i]), row, i + 1)

RECURSIVE PushRows(_, _, _)
PushRows(csv, table_cells, r) ==
    IF r > Len(table_cells) THEN csv
    ELSE PushRows(PushRow(csv, table_cells[r], 1), table_cells, r + 1)

to_csv(table_cells) == PushRows(<<>>, table_cells, 1)

\* An RFC 4180 reader with '\n' as the record separator: quoted fields,
\* doubled quotes inside them, the last line break optional, no records in
\* an empty text.  st.used tells whether the current record has begun.
ReadChar(st, c) ==
    LET EndField == [st EXCEPT !.row = Append(st.row, st.field), !.field = <<>>,
                               !.mode = "start", !.used = TRUE]
        EndRecord == [st EXCEPT !.rows = Append(st.rows, Append(st.row, st.field)),
                                !.row = <<>>, !.field = <<>>,
                                !.mode = "start", !.used = FALSE]
        Take(m) == [st EXCEPT !.field = Append(st.field, c), !.mode = m, !.used = TRUE]
    IN  CASE st.mode = "quoted" ->
                IF c = Quote THEN [st EXCEPT !.mode = "closing"] ELSE Take("quoted")
          [] st.mode = "closing" /\ c = Quote -> Take("quoted")
          [] st.mode = "start" /\ c = Quote -> [st EXCEPT !.mode = "quoted", !.used = TRUE]
          [] OTHER ->
                IF c = Comma THEN EndField
                ELSE IF c = Newline THEN EndRecord
                ELSE Take("plain")

RECURSIVE ReadFrom(_, _, _)
ReadFrom(text, i, st) ==
    IF i > Len(text)
    THEN IF st.used THEN Append(st.rows, Append(st.row, st.field)) ELSE st.rows
    ELSE ReadFrom(text, i + 1, ReadChar(st, text[i]))

ReadCsv(text) ==
    ReadFrom(text, 1, [rows |-> <<>>, row |-> <<>>, field |-> <<>>,
                       mode |-> "start", used |-> FALSE])

\* the cell strings tried
CellTexts ==
    { <<>>, <<"a">>, <<" ">>, <<Comma>>, <<Quote>>, <<Newline>>, <<"\r">>,
      <<"a", Quote>>, <<Quote, Quote>>, <<Quote, Comma>>, <<"a", Newline>>,
      <<Quote, "a", Quote>> }

RowEnd == <<"RowEnd">>

\* a table written as its cells in order, every row followed by RowEnd
RECURSIVE RowsOf(_, _, _)
RowsOf(items, done, row) ==
    IF items = <<>> THEN done
    ELSE IF Head(items) = RowEnd
         THEN RowsOf(Tail(items), Append(done, row), <<>>)
         ELSE RowsOf(Tail(items), done, Append(row, Head(items)))

CsvTables ==
    {RowsOf(items, <<>>, <<>>) :
        items \in {it \in UNION {[1..n -> CellTexts \cup {RowEnd}] : n \in 0..MaxItems} :
                      it = <<>> \/ it[Len(it)] = RowEnd}}

\* test_to_csv_escaping
ExampleCells ==
    << << <<"h", "a", "s", ",", "c", "o", "m", "m", "a">>,
          <<"h", "a", "s", "\"", "q", "u", "o", "t", "e">>,
          <<"h", "a", "s", "\n", "n", "e", "w", "l", "i", "n", "e">>,
          <<"p", "l", "a", "i", "n">> >> >>

ExampleCsv ==
    <<"\"", "h", "a", "s", ",", "c", "o", "m", "m", "a", "\"", ",",
      "\"", "h", "a", "s", "\"", "\"", "q", "u", "o", "t", "e", "\"", ",",
      "\"", "h", "a", "s", "\n", "n", "e", "w", "l", "i", "n", "e", "\"", ",",
      "p", "l", "a", "i", "n", "\n">>

InitCsv ==
    /\ csv_cells \in CsvTables \cup {ExampleCells}
    /\ csv_text = <<>>
    /\ csv_read = <<>>
    /\ csv_pc = "write"
    /\ PipeIdle /\ SplitIdle /\ EmitIdle /\ FallbackIdle /\ FnIdleBut("none")

CsvWrite ==
    /\ csv_pc = "write"
    /\ csv_text' = to_csv(csv_cells)
    /\ csv_pc' = "read"
    /\ UNCHANGED <<csv_cells, csv_read>>
    /\ UNCHANGED <<pipeVars, splitVars, emitVars, fbVars, fnVars>>

CsvRead ==
    /\ csv_pc = "read"
    /\ csv_read' = ReadCsv(csv_text)
    /\ csv_pc' = "done"
    /\ UNCHANGED <<csv_cells, csv_text>>
    /\ UNCHANGED <<pipeVars, splitVars, emitVars, fbVars, fnVars>>

NextCsv == CsvWrite \/ CsvRead

SpecCsv == InitCsv /\ [][NextCsv]_vars

---------------------------------------------------------------------------
(* extractors/pdf/extraction.rs: extract_tables_from_document              *)

\* most tables find_tables detects on one page
MaxDetected == 2

StyledCellText(plain, styled, has_bold) ==
    [plain |-> plain, styled |-> styled, has_bold |-> has_bold]

\* Option<TableHeader>
NoHeader == [some |-> FALSE, names |-> <<>>, external |-> FALSE, row_index |-> 0]
TableHeader(names, external, row_index) ==
    [some |-> TRUE, names |-> names, external |-> external, row_index |-> row_index]

\* detect_header that takes the names from the last row
DetectHeaderLastRow(styled_rows) ==
    IF styled_rows = <<>> THEN NoHeader
    ELSE LET first_row == styled_rows[Len(styled_rows)]
         IN  TableHeader([i \in 1..Len(first_row) |-> first_row[i].plain],
                         FALSE, Len(styled_rows) - 1)

detect_header(styled_rows) ==
    IF styled_rows = <<>> THEN NoHeader
    ELSE LET first_row == styled_rows[1]
         IN  TableHeader([i \in 1..Len(first_row) |-> first_row[i].plain], FALSE, 0)

\* the markdown text as the sequence of the pieces pushed to it
styled_cells_to_markdown(styled_rows) ==
    LET CellMd(cell) ==
            <<" ", IF cell.styled = "" THEN cell.plain ELSE cell.styled, " |">>
        RowMd(row) ==
            <<"|">> \o Concat([i \in 1..Len(row) |-> CellMd(row[i])]) \o <<"\n">>
        RuleMd(row) ==
            <<"|">> \o [i \in 1..Len(row) |-> " --- |"] \o <<"\n">>
    IN  Concat([r \in 1..Len(styled_rows) |->
                   IF r = 1 THEN RowMd(styled_rows[r]) \o RuleMd(styled_rows[r])
                   ELSE RowMd(styled_rows[r])])

\* Table { cells, markdown, page_number, header }
Table(table_cells, markdown, page_number, header) ==
    [cells |-> table_cells, markdown |-> markdown,
     page_number |-> page_number, header |-> header]

\* what extract_table_text_styled returns for one detected table
TextErr == [ok |-> FALSE, rows |-> <<>>]
TextOk(styled_rows) == [ok |-> TRUE, rows |-> styled_rows]
StyledGrid ==
    << << StyledCellText("Name", "**Name**", TRUE), StyledCellText("", "", FALSE) >>,
       << StyledCellText("Ann", "", FALSE), StyledCellText("30", "30", FALSE) >> >>
TextResults == {TextErr, TextOk(<<>>), TextOk(StyledGrid)}

\* what the word clustering returns on a page
WordsErr == [words |-> "Err", table_cells |-> <<>>]
WordsNone == [words |-> "empty", table_cells |-> <<>>]
WordsFound(table_cells) == [words |-> "found", table_cells |-> table_cells]
ClusterGrid == << <<"Item", "Qty">>, <<"nut", "4">> >>
ClusterResults == {WordsErr, WordsNone, WordsFound(<<>>), WordsFound(ClusterGrid)}

\* a page: the result of find_tables, the text of each detected table, and
\* the clustering of its words
PageCases ==
    {[find |-> f, detected |-> <<>>, cluster |-> c] :
        f \in {"Err", "Ok"}, c \in ClusterResults}
    \cup {[find |-> "Ok", detected |-> d, cluster |-> WordsFound(ClusterGrid)] :
            d \in UNION {[1..n -> TextResults] : n \in 1..MaxDetected}}

InitEmit ==
    /\ doc_pages \in UNION {[1..n -> PageCases] : n \in 0..MaxPages}
    /\ page_index = 0
    /\ all_tables = <<>>
    /\ fallback_pages = {}
    /\ ex_pc = "pages"
    /\ PipeIdle /\ SplitIdle /\ CsvIdle /\ FallbackIdle /\ FnIdleBut("none")

\* LineTables that gives up on a page at the first table whose text extraction
\* fails
LineTablesStopAtError(detected, k, page_number) ==
    LET failed == {j \in k..Len(detected) : ~detected[j].ok}
        last == IF failed = {} THEN Len(detected)
                ELSE (CHOOSE j \in failed : \A i \in failed : j <= i) - 1
    IN  Concat([j \in 1..(last - k + 1) |->
            LET styled_rows == detected[k + j - 1].rows
            IN  IF styled_rows = <<>> THEN <<>>
                ELSE << Table([r \in 1..Len(styled_rows) |->
                                 [i \in 1..Len(styled_rows[r]) |-> styled_rows[r][i].plain]],
                              styled_cells_to_markdown(styled_rows),
                              page_number, detect_header(styled_rows)) >>])

\* the tables pushed for the detected tables of a page
RECURSIVE LineTables(_, _, _)
LineTables(detected, k, page_number) ==
    IF k > Len(detected) THEN <<>>
    ELSE LET text == detected[k]
             pushed ==
                 IF text.ok /\ text.rows # <<>>
                 THEN LET styled_rows == text.rows
                          plain_cells == [r \in 1..Len(styled_rows) |->
                              [i \in 1..Len(styled_rows[r]) |-> styled_rows[r][i].plain]]
                      IN  << Table(plain_cells, styled_cells_to_markdown(styled_rows),
                                   page_number, detect_header(styled_rows)) >>
                 ELSE <<>>
         IN  pushed \o LineTables(detected, k + 1, page_number)

\* the table pushed by the spatial clustering of a page, if any
ClusterTables(cluster, page_number) ==
    IF cluster.words # "found" \/ cluster.table_cells = <<>> THEN <<>>
    ELSE << Table(cluster.table_cells, <<"table_to_markdown">>, page_number,
                  TableHeader(cluster.table_cells[1], FALSE, 0)) >>

\* one turn of `for (page_index, page) in document.pages().iter().enumerate()`
EmitPage ==
    /\ ex_pc = "pages"
    /\ page_index < Len(doc_pages)
    /\ LET page == doc_pages[page_index + 1]
           page_number == page_index + 1
       IN  IF page.find = "Ok" /\ page.detected # <<>>
           THEN /\ all_tables' = all_tables \o LineTables(page.detected, 1, page_number)
                /\ UNCHANGED fallback_pages
           ELSE /\ all_tables' = all_tables \o ClusterTables(page.cluster, page_number)
                /\ fallback_pages' = fallback_pages \cup {page_number}
    /\ page_index' = page_index + 1
    /\ UNCHANGED <<doc_pages, ex_pc>>
    /\ UNCHANGED <<pipeVars, splitVars, csvVars, fbVars, fnVars>>

\* Ok(all_tables)
EmitReturn ==
    /\ ex_pc = "pages"
    /\ page_index = Len(doc_pages)
    /\ ex_pc' = "done"
    /\ UNCHANGED <<doc_pages, page_index, all_tables, fallback_pages>>
    /\ UNCHANGED <<pipeVars, splitVars, csvVars, fbVars, fnVars>>

NextEmit == EmitPage \/ EmitReturn

SpecEmit == InitEmit /\ [][NextEmit]_vars

---------------------------------------------------------------------------
(* core/extractor/file.rs: extract_file_with_extractor,                    *)
(* extract_bytes_with_extractor; core/extractor/legacy.rs:                 *)
(* extract_bytes_sync_impl                                                 *)

\* longest extractor list of a MIME type
MaxExtractors == 3

\* a KreuzbergError, with the extractor it came from (0: not from an extractor)
KreuzbergError(kind, from) == [kind |-> kind, from |-> from]

FbRunning == [kind |-> "running", error |-> NoError, by |-> 0]
FbOk(by) == [kind |-> "Ok", error |-> NoError, by |-> by]
FbErr(err) == [kind |-> "Err", error |-> err, by |-> 0]

\* the matches! test with LockPoisoned left out
HaltsOnIoOnly(err) == err.kind = "Io"

\* the matches! test that lets no error fall through to the next extractor
HaltsOnAnyError(err) == TRUE

\* matches!(&err, KreuzbergError::Io(_) | KreuzbergError::LockPoisoned(_))
HaltsFallback(err) == err.kind \in {"Io", "LockPoisoned"}

\* what an extractor's extract_file / extract_bytes / extract_sync returns
ExtractorResults == {"Ok", "Io", "LockPoisoned", "Parsing"}

Extractor(sync, result) == [sync |-> sync, result |-> result]

\* before the loop: the MIME checks of the sync entry, ensure_initialized,
\* get_extractors; "ok" or the step that fails
Preludes(e) ==
    {"ok", "ensure_initialized", "get_extractors"}
    \cup (IF e = "sync" THEN {"no_mime", "validate_mime_type"} ELSE {})

PreludeError(p) ==
    IF p = "no_mime" THEN KreuzbergError("Validation", 0)
    ELSE KreuzbergError(p, 0)

InitFallback ==
    /\ entry \in {"file", "bytes", "sync"}
    /\ prelude \in Preludes(entry)
    /\ IF prelude = "ok"
       THEN /\ extractors \in UNION {[1..n ->
                    {Extractor(sy, r) : sy \in (IF entry = "sync" THEN BOOLEAN ELSE {TRUE}),
                                        r \in ExtractorResults}] : n \in 0..MaxExtractors}
            /\ pipeline_ok \in BOOLEAN
       ELSE extractors = <<>> /\ pipeline_ok = TRUE
    /\ ei = 0
    /\ invoked = <<>>
    /\ last_error = NoError
    /\ fb_result = [kind |-> "call", error |-> NoError, by |-> 0]
    /\ PipeIdle /\ SplitIdle /\ CsvIdle /\ EmitIdle /\ FnIdleBut("none")

\* everything before `for extractor in extractors`
FbCall ==
    /\ fb_result.kind = "call"
    /\ IF prelude # "ok"
       THEN fb_result' = FbErr(PreludeError(prelude)) /\ UNCHANGED ei
       ELSE fb_result' = FbRunning /\ ei' = 1
    /\ UNCHANGED <<entry, prelude, extractors, pipeline_ok, invoked, last_error>>
    /\ UNCHANGED <<pipeVars, splitVars, csvVars, emitVars, fnVars>>

\* one turn of `for extractor in extractors`
FbTry ==
    /\ fb_result.kind = "running"
    /\ ei <= Len(extractors)
    /\ LET extractor == extractors[ei]
           err == KreuzbergError(extractor.result, ei)
       IN  IF entry = "sync" /\ ~extractor.sync
           THEN \* as_sync_extractor() is None: continue
                /\ ei' = ei + 1
                /\ UNCHANGED <<invoked, last_error, fb_result>>
           ELSE /\ invoked' = Append(invoked, ei)
                /\ IF extractor.result = "Ok"
                   THEN /\ fb_result' = IF pipeline_ok THEN FbOk(ei)
                                        ELSE FbErr(KreuzbergError("run_pipeline", ei))
                        /\ UNCHANGED <<ei, last_error>>
                   ELSE IF HaltsFallback(err)
                   THEN /\ fb_result' = FbErr(err)
                        /\ UNCHANGED <<ei, last_error>>
                   ELSE /\ last_error' = err
                        /\ ei' = ei + 1
                        /\ UNCHANGED fb_result
    /\ UNCHANGED <<entry, prelude, extractors, pipeline_ok>>
    /\ UNCHANGED <<pipeVars, splitVars, csvVars, emitVars, fnVars>>

\* after the loop: `match last_error`
FbFinish ==
    /\ fb_result.kind = "running"
    /\ ei > Len(extractors)
    /\ fb_result' =
          IF last_error # NoError THEN FbErr(last_error)
          ELSE IF entry = "sync" THEN FbErr(KreuzbergError("Parsing", 0))
          ELSE FbErr(KreuzbergError("UnsupportedFormat", 0))
    /\ UNCHANGED <<entry, prelude, extractors, pipeline_ok, ei, invoked, last_error>>
    /\ UNCHANGED <<pipeVars, splitVars, csvVars, emitVars, fnVars>>

NextFallback == FbCall \/ FbTry \/ FbFinish

SpecFallback == InitFallback /\ [][NextFallback]_vars

---------------------------------------------------------------------------
(* table_clustering.rs: cluster_list.  Values are integers; the documented *)
(* example, with its tolerance 1.5, is taken in half units.                *)

\* longest value list, largest value and largest tolerance tried
MaxVals == 3
MaxVal == 3
MaxTol == 2

\* `x < last + tolerance` in place of `x <= last + tolerance`
SameClusterStrict(x, last, t) == x < last + t

\* the test of the walk: x stays in the current group
SameCluster(x, last, t) == x <= last + t

\* the loop `for &x in &sorted[1..]` from position i on, and the final push
RECURSIVE ClusterWalk(_, _, _, _, _, _)
ClusterWalk(sorted, i, groups, current_group, last, t) ==
    IF i > Len(sorted) THEN Append(groups, current_group)
    ELSE LET x == sorted[i]
         IN  IF SameCluster(x, last, t)
             THEN ClusterWalk(sorted, i + 1, groups, Append(current_group, x), x, t)
             ELSE ClusterWalk(sorted, i + 1, Append(groups, current_group), <<x>>, x, t)

cluster_list(vals, t) ==
    IF vals = <<>> THEN <<>>
    ELSE LET sorted == SortBy(vals, LAMBDA a, b : a < b)
         IN  IF t = 0 \/ Len(sorted) < 2
             THEN [i \in 1..Len(sorted) |-> <<sorted[i]>>]
             ELSE ClusterWalk(sorted, 2, <<>>, <<sorted[1]>>, sorted[1], t)

\* cluster_list(&[1.0, 2.0, 5.0, 6.0, 10.0], 1.5) and its documented result
ExampleXs == <<2, 4, 10, 12, 20>>
ExampleTolerance == 3
ExampleClusters == << <<2, 4>>, <<10, 12>>, <<20>> >>

InitCluster ==
    /\ \/ /\ xs \in UNION {[1..n -> 0..MaxVal] : n \in 0..MaxVals}
          /\ tolerance \in 0..MaxTol
       \/ /\ xs = ExampleXs
          /\ tolerance = ExampleTolerance
    /\ clusters = <<>>
    /\ cluster_pc = "call"
    /\ PipeIdle /\ SplitIdle /\ CsvIdle /\ EmitIdle /\ FallbackIdle
    /\ FnIdleBut("cluster")

ClusterCall ==
    /\ cluster_pc = "call"
    /\ clusters' = cluster_list(xs, tolerance)
    /\ cluster_pc' = "done"
    /\ UNCHANGED <<xs, tolerance>>
    /\ UNCHANGED <<pipeVars, splitVars, csvVars, emitVars, fbVars>>
    /\ UNCHANGED fnVarsButCluster

NextCluster == ClusterCall

SpecCluster == InitCluster /\ [][NextCluster]_vars

---------------------------------------------------------------------------
(* table_geometry.rs: join_edge_group                                      *)

\* most edges in a group, largest coordinate and largest join tolerance
MaxGroup == 3
MaxJoinCoord == 3
MaxJoinTol == 1

\* join_edge_group that pushes an edge only when it ends beyond the last one
\* and otherwise drops it without extending
JoinStepNoExtend(acc, e, orientation, t) ==
    LET last == acc[Len(acc)] IN
    IF orientation = "Horizontal"
    THEN IF e.x0 <= last.x1 + t THEN acc ELSE Append(acc, e)
    ELSE IF e.top <= last.bottom + t THEN acc ELSE Append(acc, e)

\* the body of `for e in &sorted[1..]`: joined after edge e
JoinStep(acc, e, orientation, t) ==
    LET last == acc[Len(acc)] IN
    IF orientation = "Horizontal"
    THEN IF e.x0 <= last.x1 + t
         THEN IF e.x1 > last.x1
              THEN [acc EXCEPT ![Len(acc)] =
                       [last EXCEPT !.x1 = e.x1, !.width = e.x1 - last.x0]]
              ELSE acc
         ELSE Append(acc, e)
    ELSE IF e.top <= last.bottom + t
         THEN IF e.bottom > last.bottom
              THEN [acc EXCEPT ![Len(acc)] =
                       [last EXCEPT !.bottom = e.bottom, !.height = e.bottom - last.top]]
              ELSE acc
         ELSE Append(acc, e)

RECURSIVE JoinWalk(_, _, _, _, _)
JoinWalk(sorted, i, acc, orientation, t) ==
    IF i > Len(sorted) THEN acc
    ELSE JoinWalk(sorted, i + 1, JoinStep(acc, sorted[i], orientation, t), orientation, t)

join_edge_group(es, t) ==
    IF es = <<>> THEN <<>>
    ELSE LET orientation == es[1].orientation
             sorted == IF orientation = "Horizontal"
                       THEN SortBy(es, LAMBDA a, b : a.x0 < b.x0)
                       ELSE SortBy(es, LAMBDA a, b : a.top < b.top)
         IN  JoinWalk(sorted, 2, <<sorted[1]>>, orientation, t)

\* the segments a group is drawn from: all on one line, start <= end
JoinSpans == {sp \in (0..MaxJoinCoord) \X (0..MaxJoinCoord) : sp[1] <= sp[2]}
JoinLine == 10
JoinEdge(orientation, sp, ty) ==
    IF orientation = "Horizontal"
    THEN EdgeHorizontal(sp[1], sp[2], JoinLine, ty)
    ELSE EdgeVertical(JoinLine, sp[1], sp[2], ty)

InitJoin ==
    /\ \E orientation \in {"Horizontal", "Vertical"}, n \in 0..MaxGroup :
          \E sps \in [1..n -> JoinSpans] :
             group = [i \in 1..n |-> JoinEdge(orientation, sps[i],
                                        IF i = 1 THEN "RectEdge" ELSE "Line")]
    /\ join_tolerance \in 0..MaxJoinTol
    /\ joined = <<>>
    /\ join_pc = "call"
    /\ PipeIdle /\ SplitIdle /\ CsvIdle /\ EmitIdle /\ FallbackIdle
    /\ FnIdleBut("join")

JoinCall ==
    /\ join_pc = "call"
    /\ joined' = join_edge_group(group, join_tolerance)
    /\ join_pc' = "done"
    /\ UNCHANGED <<group, join_tolerance>>
    /\ UNCHANGED <<pipeVars, splitVars, csvVars, emitVars, fbVars>>
    /\ UNCHANGED fnVarsButJoin

NextJoin == JoinCall

SpecJoin == InitJoin /\ [][NextJoin]_vars

---------------------------------------------------------------------------
(* table_edges.rs: extract_edges_from_path, is_rectangular_path,           *)
(* line_to_edge                                                            *)

\* most segments in a path; the coordinates its points are drawn from
MaxSegments == 5
PathCoords == {0, 2}
PathPageHeight == 2
ORIENTATION_TOLERANCE == 1

\* points are indexed from 1 here, from 0 in the source
is_rectangular_path(points) ==
    /\ Len(points) >= 4
    /\ \A i \in 0..(Min2(Len(points), 4) - 1) :
          LET j == (i + 1) % Len(points)
              dx == Abs(points[j + 1][1] - points[i + 1][1])
              dy == Abs(points[j + 1][2] - points[i + 1][2])
          IN  ~(dx > ORIENTATION_TOLERANCE /\ dy > ORIENTATION_TOLERANCE)

\* Option<Edge>: None is <<>>, Some(e) is <<e>>.  The averaged coordinate of
\* an edge is that of its first end: the ends differ by at most the
\* tolerance, and coordinates that close differ by 0 here.
line_to_edge(x0, y0, x1, y1, edge_type) ==
    LET dx == Abs(x1 - x0)
        dy == Abs(y1 - y0)
    IN  IF dy <= ORIENTATION_TOLERANCE /\ dx > 0
        THEN <<EdgeHorizontal(Min2(x0, x1), Max2(x0, x1), (y0 + y1) \div 2, edge_type)>>
        ELSE IF dx <= ORIENTATION_TOLERANCE /\ dy > 0
        THEN <<EdgeVertical((x0 + x1) \div 2, Min2(y0, y1), Max2(y0, y1), edge_type)>>
        ELSE <<>>

Segment(seg_type, x, y, close) ==
    [seg_type |-> seg_type, x |-> x, y |-> y, is_close |-> close]

\* the point of a segment in top-left coordinates
SegPoint(segment) == <<segment.x, PathPageHeight - segment.y>>

\* first pass: points, has_bezier, line_count
PathPoints(segs) ==
    LET Drawn(s) == s.seg_type \in {"MoveTo", "LineTo", "BezierTo"}
        kept == SelectSeq(segs, Drawn)
    IN  [k \in 1..Len(kept) |-> SegPoint(kept[k])]
HasBezier(segs) == \E k \in 1..Len(segs) : segs[k].seg_type = "BezierTo"
LineCount(segs) == Cardinality({k \in 1..Len(segs) : segs[k].seg_type = "LineTo"})

IsRect(segs) ==
    /\ ~HasBezier(segs)
    /\ LineCount(segs) \in {3, 4}
    /\ is_rectangular_path(PathPoints(segs))

\* second pass from segment i on; cur is (current_x, current_y), mv is
\* (move_x, move_y)
RECURSIVE EmitEdges(_, _, _, _, _)
EmitEdges(segs, i, cur, mv, acc) ==
    IF i > Len(segs) THEN acc
    ELSE LET segment == segs[i]
             pt == SegPoint(segment)
             is_rect == IsRect(segs)
             has_bezier == HasBezier(segs)
             drawn ==
                 IF segment.seg_type = "LineTo"
                 THEN line_to_edge(cur[1], cur[2], pt[1], pt[2],
                                   IF is_rect THEN "RectEdge" ELSE "Line")
                 ELSE IF segment.seg_type = "BezierTo"
                 THEN line_to_edge(cur[1], cur[2], pt[1], pt[2], "CurveEdge")
                 ELSE <<>>
             cur1 == IF segment.seg_type \in {"MoveTo", "LineTo", "BezierTo"}
                     THEN pt ELSE cur
             mv1 == IF segment.seg_type = "MoveTo" THEN pt ELSE mv
             closing ==
                 IF segment.is_close
                 THEN line_to_edge(cur1[1], cur1[2], mv1[1], mv1[2],
                                   IF is_rect THEN "RectEdge"
                                   ELSE IF has_bezier THEN "CurveEdge" ELSE "Line")
                 ELSE <<>>
             cur2 == IF segment.is_close THEN mv1 ELSE cur1
         IN  EmitEdges(segs, i + 1, cur2, mv1, acc \o drawn \o closing)

extract_edges_from_path(segs) ==
    IF segs = <<>> THEN <<>>
    ELSE EmitEdges(segs, 1, <<0, 0>>, <<0, 0>>, <<>>)

\* paths: a MoveTo, then LineTo and BezierTo segments, the last of which may
\* close the path
PathShapes ==
    UNION {[1..n -> {"LineTo", "BezierTo"} \X PathCoords \X PathCoords] :
             n \in 0..(MaxSegments - 1)}

InitPath ==
    /\ \/ segments = <<>>
       \/ \E mx \in PathCoords, my \in PathCoords, rest \in PathShapes, close \in BOOLEAN :
             segments = <<Segment("MoveTo", mx, my, FALSE)>> \o
                 [k \in 1..Len(rest) |->
                     Segment(rest[k][1], rest[k][2], rest[k][3],
                             close /\ k = Len(rest))]
    /\ path_edges = <<>>
    /\ path_pc = "call"
    /\ PipeIdle /\ SplitIdle /\ CsvIdle /\ EmitIdle /\ FallbackIdle
    /\ FnIdleBut("path")

PathCall ==
    /\ path_pc = "call"
    /\ path_edges' = extract_edges_from_path(segments)
    /\ path_pc' = "done"
    /\ UNCHANGED segments
    /\ UNCHANGED <<pipeVars, splitVars, csvVars, emitVars, fbVars>>
    /\ UNCHANGED fnVarsButPath

NextPath == PathCall

SpecPath == InitPath /\ [][NextPath]_vars

---------------------------------------------------------------------------
(* table_finder.rs: the plain text of one cell in extract_table_text_styled *)

\* most characters on the page
MaxTextChars == 4

Space == " "
\* char::is_whitespace on the characters used here
IsWhitespace(ch) == ch = Space

CharPos(ch, mid_x, mid_y, line_y) ==
    [ch |-> ch, mid_x |-> mid_x, mid_y |-> mid_y, line_y |-> line_y]

\* the cell whose text is extracted: (x0, top, x1, bottom)
TextCell == <<0, 0, 3, 30>>
\* baselines of two text lines, further apart than the line-break threshold,
\* and the distance from a baseline up to the middle of a character
TextLines == {10, 20}
HalfHeight == 2
TextChars == {"a", Space}
TextMidXs == {0, 3}
CharCases ==
    {CharPos(ch, mx, ly - HalfHeight, ly) :
        ch \in TextChars, mx \in TextMidXs, ly \in TextLines}

\* the filter of the cell: midpoint inside the half-open box
InCell(c, cell) ==
    /\ c.mid_x >= cell[1] /\ c.mid_x < cell[3]
    /\ c.mid_y >= cell[2] /\ c.mid_y < cell[4]

\* the comparator of cell_chars.sort_by: mid_y, then mid_x
ReadingLess(a, b) ==
    \/ a.mid_y < b.mid_y
    \/ (a.mid_y = b.mid_y /\ a.mid_x < b.mid_x)

\* str::trim_start and str::trim_end
RECURSIVE TrimStart(_)
TrimStart(text) ==
    IF text = <<>> THEN <<>>
    ELSE IF IsWhitespace(Head(text)) THEN TrimStart(Tail(text))
    ELSE text
RECURSIVE TrimEnd(_)
TrimEnd(text) ==
    IF text = <<>> THEN <<>>
    ELSE IF IsWhitespace(text[Len(text)]) THEN TrimEnd(SubSeq(text, 1, Len(text) - 1))
    ELSE text
Trim(text) == TrimEnd(TrimStart(text))

\* cell_chars after the filter and the sort
CellChars(data, cell) ==
    LET Inside(c) == InCell(c, cell)
    IN  SortBy(SelectSeq(data, Inside), ReadingLess)

\* plain: the characters collected into a String, then trim()
CellPlain(data, cell) ==
    LET cell_chars == CellChars(data, cell)
    IN  Trim([k \in 1..Len(cell_chars) |-> cell_chars[k].ch])

InitText ==
    /\ chars_data \in UNION {[1..n -> CharCases] : n \in 0..MaxTextChars}
    /\ cell_text = <<>>
    /\ text_pc = "call"
    /\ PipeIdle /\ SplitIdle /\ CsvIdle /\ EmitIdle /\ FallbackIdle
    /\ FnIdleBut("text")

TextCall ==
    /\ text_pc = "call"
    /\ cell_text' = CellPlain(chars_data, TextCell)
    /\ text_pc' = "done"
    /\ UNCHANGED chars_data
    /\ UNCHANGED <<pipeVars, splitVars, csvVars, emitVars, fbVars>>
    /\ UNCHANGED fnVarsButText

NextText == TextCall

SpecText == InitText /\ [][NextText]_vars

---------------------------------------------------------------------------
(* hierarchy.rs: merge_chars_into_blocks.  Coordinates are integers, so    *)
(* the comparisons of centres and of the intersection ratio are taken      *)
(* with both sides multiplied out.                                         *)

\* most characters handed to one call
MaxChars == 3

BoundingBox(left, top, right, bottom) ==
    [left |-> left, top |-> top, right |-> right, bottom |-> bottom]

\* text is a String, kept as its sequence of chars
CharData(text, x, y, font_size, width, height) ==
    [text |-> text, x |-> x, y |-> y, font_size |-> font_size,
     width |-> width, height |-> height]

TextBlock(text, bbox, font_size) ==
    [text |-> text, bbox |-> bbox, font_size |-> font_size]

calculate_area(b) == Max2(b.right - b.left, 0) * Max2(b.bottom - b.top, 0)

calculate_intersection_area(a, b) ==
    LET left == Max2(a.left, b.left)
        top == Max2(a.top, b.top)
        right == Min2(a.right, b.right)
        bottom == Min2(a.bottom, b.bottom)
    IN  Max2(right - left, 0) * Max2(bottom - top, 0)

\* the bounding box built for a character
CharBox(c) == BoundingBox(c.x, c.y - c.height, c.x + c.width, c.y)

\* the comparator of char_boxes.sort_by: top, then left
BoxLess(a, b) ==
    \/ a.bbox.top < b.bbox.top
    \/ (a.bbox.top = b.bbox.top /\ a.bbox.left < b.bbox.left)

\* merge_by_distance || intersection_ratio > intersection_threshold:
\* dx < 2.0 * avg and dy < 1.5 * avg on doubled centres, ratio > 0.05 as
\* 20 * intersection > area
ShouldMerge(block_bbox, next_bbox) ==
    LET avg_font_size == Max2(block_bbox.bottom - block_bbox.top,
                              next_bbox.bottom - next_bbox.top)
        dx2 == Abs((block_bbox.left + block_bbox.right) - (next_bbox.left + next_bbox.right))
        dy2 == Abs((block_bbox.top + block_bbox.bottom) - (next_bbox.top + next_bbox.bottom))
        self_area == calculate_area(block_bbox)
        merge_by_distance == dx2 < 4 * avg_font_size /\ dy2 < 3 * avg_font_size
        ratio_over == /\ self_area > 0
                      /\ 20 * calculate_intersection_area(block_bbox, next_bbox) > self_area
    IN  merge_by_distance \/ ratio_over

\* block_bbox expanded by next_bbox
ExpandBox(block_bbox, next_bbox) ==
    BoundingBox(Min2(block_bbox.left, next_bbox.left), Min2(block_bbox.top, next_bbox.top),
                Max2(block_bbox.right, next_bbox.right), Max2(block_bbox.bottom, next_bbox.bottom))

\* one pass of `for j in (i + 1)..char_boxes.len()` from j on; st holds
\* current_block, block_bbox, used and changed
RECURSIVE AbsorbPass(_, _, _)
AbsorbPass(char_boxes, j, st) ==
    IF j > Len(char_boxes) THEN st
    ELSE IF st.used[j] THEN AbsorbPass(char_boxes, j + 1, st)
    ELSE IF ShouldMerge(st.block_bbox, char_boxes[j].bbox)
         THEN AbsorbPass(char_boxes, j + 1,
                  [current_block |-> Append(st.current_block, char_boxes[j].char),
                   block_bbox |-> ExpandBox(st.block_bbox, char_boxes[j].bbox),
                   used |-> [st.used EXCEPT ![j] = TRUE],
                   changed |-> TRUE])
         ELSE AbsorbPass(char_boxes, j + 1, st)

\* `while changed`
RECURSIVE AbsorbAll(_, _, _)
AbsorbAll(char_boxes, i, st) ==
    LET after == AbsorbPass(char_boxes, i + 1, [st EXCEPT !.changed = FALSE])
    IN  IF after.changed THEN AbsorbAll(char_boxes, i, after) ELSE after

\* `for i in 0..char_boxes.len()` from i on (positions from 1 here)
RECURSIVE GrowBlocks(_, _, _, _)
GrowBlocks(char_boxes, i, used, acc) ==
    IF i > Len(char_boxes) THEN acc
    ELSE IF used[i] THEN GrowBlocks(char_boxes, i + 1, used, acc)
    ELSE LET st == AbsorbAll(char_boxes, i,
                       [current_block |-> <<char_boxes[i].char>>,
                        block_bbox |-> char_boxes[i].bbox,
                        used |-> [used EXCEPT ![i] = TRUE],
                        changed |-> TRUE])
         IN  GrowBlocks(char_boxes, i + 1, st.used, Append(acc, st.current_block))

\* the Vec<Vec<CharData>> built by the greedy loop
CharBlocks(cs) ==
    IF cs = <<>> THEN <<>>
    ELSE LET char_boxes == SortBy([k \in 1..Len(cs) |-> [char |-> cs[k], bbox |-> CharBox(cs[k])]],
                                  BoxLess)
         IN  GrowBlocks(char_boxes, 1, [k \in 1..Len(cs) |-> FALSE], <<>>)

RECURSIVE SumSeq(_)
SumSeq(seq) == IF seq = <<>> THEN 0 ELSE Head(seq) + SumSeq(Tail(seq))

\* a TextBlock whose bounding box is that of its first character only
ToTextBlockFirstBox(block) ==
    TextBlock(Concat([k \in 1..Len(block) |-> block[k].text]),
              CharBox(block[1]),
              SumSeq([k \in 1..Len(block) |-> block[k].font_size]) \div Len(block))

\* the closure converting a block to a TextBlock.  The mean font size is an
\* integer here: the characters of one call have the same font size.
ToTextBlock(block) ==
    TextBlock(Concat([k \in 1..Len(block) |-> block[k].text]),
              BoundingBox(SetMin({block[k].x : k \in 1..Len(block)}),
                          SetMin({block[k].y - block[k].height : k \in 1..Len(block)}),
                          -SetMin({-(block[k].x + block[k].width) : k \in 1..Len(block)}),
                          -SetMin({-block[k].y : k \in 1..Len(block)})),
              SumSeq([k \in 1..Len(block) |-> block[k].font_size]) \div Len(block))

merge_chars_into_blocks(cs) ==
    LET bs == CharBlocks(cs) IN [k \in 1..Len(bs) |-> ToTextBlock(bs[k])]

\* a block taken as one character: its text, bounding box and font size
BlockAsChar(b) ==
    CharData(b.text, b.bbox.left, b.bbox.bottom, b.font_size,
             b.bbox.right - b.bbox.left, b.bbox.bottom - b.bbox.top)

\* create_char of the tests, with font size 10 and width 0.6 * font size
FontSize == 10
create_char(text, x, y) == CharData(<<text>>, x, y, FontSize, 6, FontSize)

\* where characters are placed: left edges and tops
CharLefts == {0, 19, 28}
CharTops == {0, 1, 2, 13}
CharNames == <<"a", "b", "c", "d">>
\* test_merge_horizontal_text_merging
HeyChars == <<create_char("H", 0, 10), create_char("e", 10, 10), create_char("y", 20, 10)>>

InitMerge ==
    /\ \/ \E n \in 0..MaxChars :
             \E at \in [1..n -> CharLefts \X CharTops] :
                chars = [k \in 1..n |->
                            create_char(CharNames[k], at[k][1], at[k][2] + FontSize)]
       \/ chars = HeyChars
    /\ blocks = <<>>
    /\ merged = <<>>
    /\ remerged = <<>>
    /\ merge_pc = "call"
    /\ PipeIdle /\ SplitIdle /\ CsvIdle /\ EmitIdle /\ FallbackIdle
    /\ FnIdleBut("merge")

\* merge_chars_into_blocks(chars)
MergeCall ==
    /\ merge_pc = "call"
    /\ blocks' = CharBlocks(chars)
    /\ merged' = merge_chars_into_blocks(chars)
    /\ merge_pc' = "again"
    /\ UNCHANGED <<chars, remerged>>
    /\ UNCHANGED <<pipeVars, splitVars, csvVars, emitVars, fbVars>>
    /\ UNCHANGED fnVarsButMerge

\* merge_chars_into_blocks on the blocks of the first call
MergeAgain ==
    /\ merge_pc = "again"
    /\ remerged' = merge_chars_into_blocks([k \in 1..Len(merged) |-> BlockAsChar(merged[k])])
    /\ merge_pc' = "done"
    /\ UNCHANGED <<chars, blocks, merged>>
    /\ UNCHANGED <<pipeVars, splitVars, csvVars, emitVars, fbVars>>
    /\ UNCHANGED fnVarsButMerge

NextMerge == MergeCall \/ MergeAgain

SpecMerge == InitMerge /\ [][NextMerge]_vars

---------------------------------------------------------------------------
(* Properties.                                                             *)

CellsComputed  == pc \in {"tables", "rows", "done"}
TablesComputed == pc \in {"rows", "done"}

\* C1: for every DetectedTable with a non-empty cell list, every row of
\* rows() has as many entries as the table's cells have distinct x0 values.
C1_RowLengthIsDistinctX0 ==
    pc = "done" =>
        \A k \in 1..Len(tables) :
            tables[k].cells # <<>> =>
                \A r \in 1..Len(rows[k]) :
                    Len(rows[k][r]) =
                        Cardinality({tables[k].cells[i][1] : i \in 1..Len(tables[k].cells)})

\* C2: cells_to_tables returns exactly the connected components, under
\* "shares a corner", that hold at least two cells: one table per such
\* component, holding exactly its cells, and nothing else.
Share(i, j) ==
    i # j /\ bbox_corners(cells[i]) \cap bbox_corners(cells[j]) # {}
RECURSIVE Component(_)
Component(S) ==
    LET T == S \cup {j \in 1..Len(cells) : \E i \in S : Share(i, j)}
    IN  IF T = S THEN S ELSE Component(T)
Components == {Component({i}) : i \in 1..Len(cells)}
Count(seq, c) == Cardinality({i \in 1..Len(seq) : seq[i] = c})
HoldsExactly(t, K) ==
    /\ Len(t.cells) = Cardinality(K)
    /\ \A i \in K : Count(t.cells, cells[i]) = Cardinality({j \in K : cells[j] = cells[i]})
C2_TablesAreComponents ==
    TablesComputed =>
        LET big == {K \in Components : Cardinality(K) >= 2} IN
        /\ Len(tables) = Cardinality(big)
        /\ \A K \in big : \E k \in 1..Len(tables) : HoldsExactly(tables[k], K)
        /\ \A k \in 1..Len(tables) : \E K \in big : HoldsExactly(tables[k], K)

\* a chain of three cells whose ends share no corner, and a lone cell
C2_Witness ==
    /\ pc = "done"
    /\ Len(cells) = 4
    /\ Len(tables) = 1
    /\ Len(tables[1].cells) = 3
    /\ \E i, j \in 1..Len(cells) :
          i # j /\ ~Share(i, j) /\ j \in Component({i})

\* C3: the six cells of the 3x3 grid give one table, and it has 4 cells.
GridRun == edges = Grid3 /\ clip = Page /\ tol = TestTol
C3_GridTableHasFourCells ==
    (GridRun /\ TablesComputed) =>
        Len(tables) = 1 /\ Len(tables[1].cells) = 4

\* C4: for a top-left vertex P and a vertex B below it on a shared vertical
\* edge there is at most one cell, closed by the first right-hand vertex R
\* (smallest x) on a shared horizontal edge with P whose Q = (R.x, B.y) is an
\* intersection connected to R and to B; every cell arises so; the 3x3 grid
\* has 9 intersections and 6 cells, the four 50x50 ones and two spanning.
Anchors ==
    {pb \in (DOMAIN inter) \X (DOMAIN inter) :
        /\ pb[2][1] = pb[1][1]
        /\ pb[2][2] > pb[1][2]
        /\ edge_connects(inter, pb[1], pb[2])}
Closers(P, B) ==
    {R \in DOMAIN inter :
        /\ R[2] = P[2]
        /\ R[1] > P[1]
        /\ edge_connects(inter, P, R)
        /\ <<R[1], B[2]>> \in DOMAIN inter
        /\ edge_connects(inter, <<R[1], B[2]>>, R)
        /\ edge_connects(inter, <<R[1], B[2]>>, B)}
CellsOf(P, B) ==
    {i \in 1..Len(cells) :
        cells[i][1] = P[1] /\ cells[i][2] = P[2] /\ cells[i][4] = B[2]}
MinimalCells ==
    {<<x, y, x + Pitch, y + Pitch>> : <<x, y>> \in {0, Pitch} \X {0, Pitch}}
C4_FirstCloserPerAnchor ==
    CellsComputed =>
        /\ \A pb \in Anchors :
              IF Closers(pb[1], pb[2]) = {}
              THEN CellsOf(pb[1], pb[2]) = {}
              ELSE /\ Cardinality(CellsOf(pb[1], pb[2])) = 1
                   /\ \A i \in CellsOf(pb[1], pb[2]) :
                         cells[i][3] = SetMin({R[1] : R \in Closers(pb[1], pb[2])})
        /\ \A i \in 1..Len(cells) : \E pb \in Anchors : i \in CellsOf(pb[1], pb[2])
        /\ GridRun =>
              /\ Cardinality(DOMAIN inter) = 9
              /\ Len(cells) = 6
              /\ MinimalCells \subseteq Range(cells)
              /\ Cardinality(Range(cells) \ MinimalCells) = 2

\* the grid's cells are computed, and some anchor has a later closer to skip
C4_Witness ==
    /\ GridRun
    /\ pc = "done"
    /\ \E pb \in Anchors : Cardinality(Closers(pb[1], pb[2])) >= 2

\* C5: a second run on the same edges and clip returns the same cells, the
\* same tables and the same row grids, in the same order, whatever order the
\* intersection map yields its keys in.
C5_SameResultAnyKeyOrder ==
    (run = 2 /\ clip = prev.clip) =>
        /\ CellsComputed => cells = prev.cells
        /\ TablesComputed => tables = prev.tables
        /\ pc = "done" => rows = prev.rows

\* the two runs saw different key orders and found a table
C5_Witness ==
    /\ run = 2
    /\ pc = "done"
    /\ clip = prev.clip
    /\ order # prev.order
    /\ Len(tables) >= 1

\* C6: the table list is ascending by (top, left) of the tables' boxes.
C6_TablesSortedTopLeft ==
    TablesComputed =>
        \A i \in 1..(Len(tables) - 1) :
            \/ tables[i].bbox[2] < tables[i + 1].bbox[2]
            \/ /\ tables[i].bbox[2] = tables[i + 1].bbox[2]
               /\ tables[i].bbox[1] <= tables[i + 1].bbox[1]

\* two tables, found in the other order than the one returned
C6_Witness ==
    /\ pc = "done"
    /\ Len(tables) = 2
    /\ GroupCells(cells, <<>>) # cells_to_tables(cells)

\* C7, as claimed: a clip contained in another never finds more tables.
C7_ClipMonotoneTables ==
    (run = 2 /\ TablesComputed) => Len(prev.tables) >= Len(tables)

\* C7, amended: a clip contained in another never finds more intersections
\* nor more cells.
C7_ClipMonotoneCells ==
    (run = 2 /\ CellsComputed) =>
        /\ prev.n_inter >= Cardinality(DOMAIN inter)
        /\ Len(prev.cells) >= Len(cells)

\* the smaller clip lost cells and kept some
C7_Witness ==
    /\ run = 2
    /\ pc = "done"
    /\ clip # prev.clip
    /\ Len(cells) > 0
    /\ Len(cells) < Len(prev.cells)

\* C8: clip_edges with a degenerate clip returns no edge.
C8_DegenerateClipNoEdges ==
    (pc # "clip" /\ Degenerate(clip)) => clipped = <<>>

\* C9: the pipeline run with a degenerate clip finds no table.
C9_DegenerateClipNoTables ==
    (Degenerate(clip) /\ TablesComputed) => tables = <<>>

\* a degenerate clip that let edges through, run to its end
C9_Witness ==
    /\ Degenerate(clip)
    /\ pc = "done"
    /\ clipped # <<>>


\* C10: a range is accepted iff 1 <= start <= end <= page_count; a rejected
\* range gives PageNotFound(0) when start = 0, else PageNotFound(start) when
\* start > page_count, else PageNotFound(end) when end > page_count, else
\* InvalidPdf (start > end).
ValidRange(r) == 1 <= r.start /\ r.start <= r.end /\ r.end <= document.pages
C10_RangeValidation ==
    /\ outcome.kind \in {"running", "Ok"} =>
          \A i \in 1..Len(results) : ValidRange(ranges[i])
    /\ outcome.kind = "Ok" => Len(results) = Len(ranges)
    /\ (outcome.kind = "Err" /\ ri >= 1) =>
          LET r == ranges[ri] IN
          /\ ~ValidRange(r)
          /\ r.start = 0 => outcome = Err("PageNotFound", 0)
          /\ (r.start # 0 /\ r.start > document.pages) =>
                outcome = Err("PageNotFound", r.start)
          /\ (r.start # 0 /\ r.start <= document.pages /\ r.end > document.pages) =>
                outcome = Err("PageNotFound", r.end)
          /\ (r.start # 0 /\ r.start <= document.pages /\ r.end <= document.pages) =>
                outcome = Err("InvalidPdf", 0)

\* a range after an accepted one is rejected for its start, though its end
\* is out of range too and it is reversed
C10_Witness ==
    /\ outcome.kind = "Err"
    /\ ri = 2
    /\ ranges[ri].start > document.pages
    /\ ranges[ri].end > document.pages
    /\ ranges[ri].start > ranges[ri].end


Returned == outcome.kind \in {"Ok", "Err", "panic"}
Loads == load_document(document, password).kind = "Ok"
\* the pages lo..hi in order, hi - lo + 1 of them
IsPageRun(part, lo, hi) ==
    /\ Len(part) = hi - lo + 1
    /\ \A k \in 1..Len(part) : part[k] = lo + k - 1

\* C11: split_pdf_with_password returns one part per range, in request order,
\* each with exactly end - start + 1 pages, or only an error: an invalid range
\* anywhere in the list means no parts are returned.
C11_AllPartsOrError ==
    (op = "ranges" /\ Returned) =>
        /\ outcome.kind \in {"Ok", "Err"}
        /\ outcome.kind = "Ok" =>
              /\ Len(outcome.parts) = Len(ranges)
              /\ \A i \in 1..Len(ranges) :
                    IsPageRun(outcome.parts[i], ranges[i].start, ranges[i].end)
        /\ (\E i \in 1..Len(ranges) : ~ValidRange(ranges[i])) =>
              outcome.kind = "Err"
        /\ outcome.kind = "Err" => outcome.parts = <<>>

\* the second range is rejected after a part was built for the first
C11_Witness ==
    /\ op = "ranges"
    /\ outcome.kind = "Err"
    /\ ri = 2
    /\ Len(results) = 1
    /\ ValidRange(ranges[1])
    /\ outcome.parts = <<>>

\* C12: chunk_size = 0 fails with a Validation error and produces no parts.
C12_ZeroChunkIsValidationError ==
    (op = "chunks" /\ chunk_size = 0 /\ Returned) =>
        /\ outcome.kind = "Err"
        /\ outcome.err = "Validation"
        /\ outcome.parts = <<>>

\* ceil(n / k)
CeilDiv(n, k) == (n + k - 1) \div k

\* C13: for n pages and chunk_size k >= 1 the chunk split returns ceil(n/k)
\* parts, part i holding pages (i-1)*k+1 .. min(i*k, n); the loop ends with
\* this result.
C13_ChunksCoverDocument ==
    (op = "chunks" /\ chunk_size >= 1 /\ Loads /\ Returned) =>
        /\ outcome.kind = "Ok"
        /\ Len(outcome.parts) = CeilDiv(document.pages, chunk_size)
        /\ \A i \in 1..Len(outcome.parts) :
              IsPageRun(outcome.parts[i], (i - 1) * chunk_size + 1,
                        Min2(i * chunk_size, document.pages))

\* C14: split_pdf_into_pages returns page_count parts, part i holding exactly
\* page i, so the parts' page counts sum to the page count of the source.
C14_OnePartPerPage ==
    (op = "pages" /\ Loads /\ Returned) =>
        /\ outcome.kind = "Ok"
        /\ Len(outcome.parts) = document.pages
        /\ \A i \in 1..Len(outcome.parts) : outcome.parts[i] = <<i>>

C14_Witness ==
    /\ op = "pages"
    /\ outcome.kind = "Ok"
    /\ document.pages >= 2
    /\ Len(outcome.parts) = document.pages

\* a call that reaches load_document and has returned
LoadTried == Returned /\ (op = "pages" \/ (op = "chunks" /\ chunk_size >= 1))

\* C15 as stated: an encrypted document fails with InvalidPassword both when
\* no password is supplied and when the password is wrong.
C15_EncryptedFailsInvalidPassword ==
    (LoadTried /\ document.kind = "encrypted" /\ password # "right") =>
        outcome = Err("InvalidPassword", 0)

\* C15 as amended: an encrypted document fails with PasswordRequired when no
\* password is supplied and with InvalidPassword when the password is wrong.
C15_PasswordRequiredOrInvalid ==
    (LoadTried /\ document.kind = "encrypted") =>
        /\ password = NoPassword => outcome = Err("PasswordRequired", 0)
        /\ password = "wrong" => outcome = Err("InvalidPassword", 0)

C15_Witness ==
    /\ LoadTried
    /\ document.kind = "encrypted"
    /\ password = NoPassword
    /\ outcome = Err("PasswordRequired", 0)


\* a cell as the claim says it is written
FieldAsClaimed(cell) ==
    LET Special(c) == c \in {Comma, Quote, Newline}
        Doubled == Concat([i \in 1..Len(cell) |->
                        IF cell[i] = Quote THEN <<Quote, Quote>> ELSE <<cell[i]>>])
    IN  IF \E i \in 1..Len(cell) : Special(cell[i])
        THEN <<Quote>> \o Doubled \o <<Quote>>
        ELSE cell
RowAsClaimed(row) ==
    Concat([i \in 1..Len(row) |->
               IF i = 1 THEN FieldAsClaimed(row[i])
               ELSE <<Comma>> \o FieldAsClaimed(row[i])]) \o <<Newline>>

\* C16: to_csv writes each row as its cells joined by ',' and ended by '\n';
\* a cell is wrapped in double quotes iff it contains ',', '"' or '\n', with
\* every '"' inside written as '""'; other cells are written unchanged; the
\* table of test_to_csv_escaping gives the text of that test.
C16_CsvFormat ==
    csv_pc \in {"read", "done"} =>
        /\ csv_text = Concat([r \in 1..Len(csv_cells) |-> RowAsClaimed(csv_cells[r])])
        /\ csv_cells = ExampleCells => csv_text = ExampleCsv

\* a row with a quoted cell that holds a quote and a line break cell, written
C16_Witness ==
    /\ csv_pc = "done"
    /\ Len(csv_cells) = 1
    /\ Len(csv_cells[1]) = 2
    /\ csv_cells[1][1] = <<"a", Quote>>
    /\ csv_cells[1][2] = <<Newline>>
    /\ csv_text = <<Quote, "a", Quote, Quote, Quote, Comma, Quote, Newline, Quote, Newline>>

\* C17 as stated: reading the output of to_csv gives back the rows and cells
\* of every table.
C17_CsvRoundTrip ==
    csv_pc = "done" => csv_read = csv_cells

\* C17 as amended: the same for every table whose rows all have a cell.
C17_CsvRoundTripNonEmptyRows ==
    (csv_pc = "done" /\ \A r \in 1..Len(csv_cells) : csv_cells[r] # <<>>) =>
        csv_read = csv_cells

\* two rows, a cell with a quote and a comma and a cell with a line break
C17_Witness ==
    /\ csv_pc = "done"
    /\ csv_cells = << << <<Quote, Comma>> >>, << <<"a", Newline>> >> >>
    /\ csv_read = csv_cells


\* C18: every Table emitted by extract_tables_from_document, by line-based
\* detection or by the clustering fallback, has header = Some with
\* external = false, row_index = 0 and names = cells[0], so
\* row_index < cells.len().
C18_HeaderIsFirstRow ==
    \A t \in 1..Len(all_tables) :
        LET table == all_tables[t] IN
        /\ table.header.some
        /\ table.header.external = FALSE
        /\ table.header.row_index = 0
        /\ table.header.row_index < Len(table.cells)
        /\ table.header.names = table.cells[1]

\* a finished run that emitted a table from the lines of one page and a table
\* from the clustering of another
C18_Witness ==
    /\ ex_pc = "done"
    /\ Len(all_tables) = 2
    /\ fallback_pages # {}
    /\ \E t \in 1..2 : all_tables[t].page_number \in fallback_pages
    /\ \E t \in 1..2 : all_tables[t].page_number \notin fallback_pages


FbReturned == fb_result.kind \in {"Ok", "Err"}
IoOrLock(i) == extractors[i].result \in {"Io", "LockPoisoned"}
Demoted(i) == extractors[i].result \notin {"Ok", "Io", "LockPoisoned"}

\* C19: in all three functions, when the extractor at position i fails with
\* an Io or LockPoisoned error, that error is returned at once and no
\* extractor after position i is invoked.
C19_IoAndLockPoisonedHalt ==
    \A k \in 1..Len(invoked) :
        IoOrLock(invoked[k]) =>
            /\ k = Len(invoked)
            /\ fb_result = FbErr(KreuzbergError(extractors[invoked[k]].result, invoked[k]))

\* LockPoisoned from the second of three extractors, after a Parsing error
C19_Witness ==
    /\ Len(extractors) = 3
    /\ extractors[1].result = "Parsing"
    /\ extractors[2].result = "LockPoisoned"
    /\ invoked = <<1, 2>>
    /\ fb_result = FbErr(KreuzbergError("LockPoisoned", 2))

\* C20: in the loops of extract_file_with_extractor and
\* extract_bytes_with_extractor an error other than Io or LockPoisoned makes
\* the loop try the next extractor in registry order; extractors are tried at
\* most once each; the first success ends the loop; when every extractor
\* fails the error returned is that of the last extractor tried, and
\* UnsupportedFormat when the list is empty.
C20_FallbackOrder ==
    (entry \in {"file", "bytes"} /\ prelude = "ok") =>
        /\ invoked = [k \in 1..Len(invoked) |-> k]
        /\ \A k \in 1..Len(invoked) : k < Len(invoked) => Demoted(k)
        /\ FbReturned =>
              /\ \A k \in 1..Len(invoked) :
                    (Demoted(k) /\ k < Len(extractors)) => Len(invoked) > k
              /\ fb_result.kind = "Ok" =>
                    /\ fb_result.by = Len(invoked)
                    /\ extractors[fb_result.by].result = "Ok"
              /\ (\E i \in 1..Len(extractors) : extractors[i].result = "Ok"
                    /\ \A j \in 1..(i - 1) : Demoted(j)) =>
                    \E i \in 1..Len(extractors) :
                        /\ extractors[i].result = "Ok"
                        /\ Len(invoked) = i
              /\ (extractors # <<>> /\ \A i \in 1..Len(extractors) : Demoted(i)) =>
                    /\ Len(invoked) = Len(extractors)
                    /\ fb_result = FbErr(KreuzbergError(
                          extractors[Len(extractors)].result, Len(extractors)))
              /\ extractors = <<>> =>
                    fb_result = FbErr(KreuzbergError("UnsupportedFormat", 0))

\* three extractors, all failing with Parsing: the third one's error is returned
C20_Witness ==
    /\ entry = "file"
    /\ Len(extractors) = 3
    /\ \A i \in 1..3 : Demoted(i)
    /\ invoked = <<1, 2, 3>>
    /\ fb_result = FbErr(KreuzbergError("Parsing", 3))

\* C30: for chunk_size in 1..=u32::MAX and n >= 1 pages the chunk-end
\* computation start + chunk_size - 1 never leaves the u32 range, and a
\* chunk_size of at least n gives exactly one part holding all n pages.
C30_ChunkEndNeverOverflows ==
    /\ (op = "chunks" /\ outcome.kind = "running" /\ start <= page_count) =>
          /\ ~AddU32(start, chunk_size).overflow
          /\ ~SubU32(AddU32(start, chunk_size).val, 1).overflow
    /\ (op = "chunks" /\ Loads /\ Returned /\ document.pages >= 1
            /\ chunk_size >= document.pages) =>
          /\ outcome.kind = "Ok"
          /\ Len(outcome.parts) = 1
          /\ IsPageRun(outcome.parts[1], 1, document.pages)


\* the tables emitted for page p, in emission order
TablesOfPage(p) == SelectSeq(all_tables, LAMBDA t : t.page_number = p)
\* the detected tables of a page whose text was extracted with at least one row
Readable(page) ==
    SelectSeq(page.detected, LAMBDA text : text.ok /\ text.rows # <<>>)
LineDetected(page) == page.find = "Ok" /\ page.detected # <<>>

\* C25: on each page the clustering fallback runs iff find_tables returned an
\* error or no table; where it detected a table the fallback does not run, a
\* table whose text extraction fails is the only one dropped, and the
\* remaining tables and pages are still processed.
C25_FallbackIffNoLineTables ==
    /\ \A p \in 1..page_index :
          LET page == doc_pages[p] IN
          /\ p \in fallback_pages <=> ~LineDetected(page)
          /\ LineDetected(page) =>
                /\ Len(TablesOfPage(p)) = Len(Readable(page))
                /\ \A k \in 1..Len(Readable(page)) :
                      \A r \in 1..Len(Readable(page)[k].rows) :
                         \A i \in 1..Len(Readable(page)[k].rows[r]) :
                            TablesOfPage(p)[k].cells[r][i] = Readable(page)[k].rows[r][i].plain
          /\ ~LineDetected(page) =>
                Len(TablesOfPage(p)) =
                    (IF page.cluster.words = "found" /\ page.cluster.table_cells # <<>>
                     THEN 1 ELSE 0)
    /\ fallback_pages \subseteq 1..page_index
    /\ ex_pc = "done" => page_index = Len(doc_pages)

\* the text of the first detected table of page 1 cannot be extracted: its
\* second table is emitted, the fallback is not run there, and page 2, with
\* no lines, is handled by the fallback
C25_Witness ==
    /\ ex_pc = "done"
    /\ Len(doc_pages) = 2
    /\ doc_pages[1].find = "Ok"
    /\ Len(doc_pages[1].detected) = 2
    /\ ~doc_pages[1].detected[1].ok
    /\ doc_pages[1].detected[2] = TextOk(StyledGrid)
    /\ doc_pages[2].find = "Err"
    /\ fallback_pages = {2}
    /\ Len(all_tables) = 2
    /\ all_tables[1].page_number = 1
    /\ all_tables[2].cells = ClusterGrid


\* xs in ascending order, duplicates kept
SortedXs == SortBy(xs, LAMBDA a, b : a < b)
\* the cluster that holds position k of the concatenation of the clusters
ClusterOf(k) ==
    CHOOSE c \in 1..Len(clusters) :
        /\ Len(Concat(SubSeq(clusters, 1, c - 1))) < k
        /\ k <= Len(Concat(SubSeq(clusters, 1, c)))
ClustersPartitionSorted ==
    /\ Concat(clusters) = SortedXs
    /\ \A c \in 1..Len(clusters) : clusters[c] # <<>>
NeighboursJoinedIffClose ==
    \A k \in 1..(Len(SortedXs) - 1) :
        ClusterOf(k) = ClusterOf(k + 1)
            <=> SortedXs[k + 1] <= SortedXs[k] + tolerance
SingletonsWhenZeroOrShort ==
    (tolerance = 0 \/ Len(xs) < 2) =>
        clusters = [i \in 1..Len(xs) |-> <<SortedXs[i]>>]
ExampleAsDocumented ==
    (xs = ExampleXs /\ tolerance = ExampleTolerance) => clusters = ExampleClusters

\* C26: cluster_list sorts ascending and splits into consecutive clusters,
\* two neighbouring sorted values sharing a cluster iff the later is <= the
\* earlier + tolerance; the clusters concatenate to the sorted input; with
\* tolerance 0 or fewer than 2 values every value is its own cluster; the
\* documented example gives [[1,2],[5,6],[10]].
C26_ClusterList ==
    cluster_pc = "done" =>
        /\ ClustersPartitionSorted
        /\ NeighboursJoinedIffClose
        /\ SingletonsWhenZeroOrShort
        /\ ExampleAsDocumented

\* C26 with the neighbour rule for a non-zero tolerance only
C26_ClusterListNonZeroTolerance ==
    cluster_pc = "done" =>
        /\ ClustersPartitionSorted
        /\ tolerance # 0 => NeighboursJoinedIffClose
        /\ SingletonsWhenZeroOrShort
        /\ ExampleAsDocumented

\* unsorted input with a duplicate, one value exactly tolerance away from its
\* neighbour and one further away
C26_Witness ==
    /\ cluster_pc = "done"
    /\ xs = <<3, 0, 0>>
    /\ tolerance = 2
    /\ clusters = << <<0, 0>>, <<3>> >>


\* start and end of an edge along its line
SegStart(e) == IF e.orientation = "Horizontal" THEN e.x0 ELSE e.top
SegEnd(e) == IF e.orientation = "Horizontal" THEN e.x1 ELSE e.bottom
\* the inputs that output segment k covers
Absorbed(k) ==
    {i \in 1..Len(group) : /\ SegStart(joined[k]) <= SegStart(group[i])
                           /\ SegEnd(group[i]) <= SegEnd(joined[k])}

\* C27: for a non-empty group of collinear edges join_edge_group returns
\* segments ordered by start, every input covered by exactly one output, each
\* output spanning from the smallest start to the largest end of the inputs
\* it absorbed, consecutive outputs separated by a gap > tolerance; a single
\* edge is returned unchanged and an empty group gives an empty result.
C27_JoinEdgeGroup ==
    join_pc = "done" =>
        /\ group = <<>> => joined = <<>>
        /\ Len(group) = 1 => joined = group
        /\ group # <<>> => joined # <<>>
        /\ \A k \in 1..(Len(joined) - 1) :
              /\ SegStart(joined[k]) <= SegStart(joined[k + 1])
              /\ SegStart(joined[k + 1]) - SegEnd(joined[k]) > join_tolerance
        /\ \A i \in 1..Len(group) :
              Cardinality({k \in 1..Len(joined) : i \in Absorbed(k)}) = 1
        /\ \A k \in 1..Len(joined) :
              /\ Absorbed(k) # {}
              /\ \E i \in Absorbed(k) : SegStart(joined[k]) = SegStart(group[i])
              /\ \E i \in Absorbed(k) : SegEnd(joined[k]) = SegEnd(group[i])
              /\ joined[k].orientation = group[1].orientation
              /\ joined[k].top = IF joined[k].orientation = "Horizontal"
                                 THEN JoinLine ELSE SegStart(joined[k])
              /\ joined[k].x0 = IF joined[k].orientation = "Vertical"
                                THEN JoinLine ELSE SegStart(joined[k])

\* an unsorted group: the second edge is first by start and is extended by
\* the first one, the third lies beyond the tolerance
C27_Witness ==
    /\ join_pc = "done"
    /\ join_tolerance = 1
    /\ Len(group) = 3
    /\ group[1].orientation = "Horizontal"
    /\ <<group[1].x0, group[1].x1>> = <<1, 1>>
    /\ <<group[2].x0, group[2].x1>> = <<0, 0>>
    /\ <<group[3].x0, group[3].x1>> = <<3, 3>>
    /\ Len(joined) = 2
    /\ <<joined[1].x0, joined[1].x1>> = <<0, 1>>
    /\ <<joined[2].x0, joined[2].x1>> = <<3, 3>>


\* the point each segment starts from: the point of the segment before it
SegFrom(k) == SegPoint(segments[k - 1])
LineToAxisAligned(k) ==
    LET dx == Abs(SegPoint(segments[k])[1] - SegFrom(k)[1])
        dy == Abs(SegPoint(segments[k])[2] - SegFrom(k)[2])
    IN  dx <= ORIENTATION_TOLERANCE \/ dy <= ORIENTATION_TOLERANCE
AllLinesAxisAligned ==
    \A k \in 2..Len(segments) :
        segments[k].seg_type = "LineTo" => LineToAxisAligned(k)
\* the path comes back to its start point, by its last point or by a close
ReturnsToStart ==
    /\ segments # <<>>
    /\ \/ segments[Len(segments)].is_close
       \/ SegPoint(segments[Len(segments)]) = SegPoint(segments[1])
EdgeTypes == {path_edges[k].edge_type : k \in 1..Len(path_edges)}

\* C24: a path's edges are RectEdge only when the path has no bezier segment
\* and its 3 or 4 line segments form an axis-aligned closed path; a MoveTo
\* plus 4 axis-aligned LineTo segments that does not return to its start
\* point gives Line edges, not RectEdge.
C24_RectEdgeOnlyForClosedRect ==
    path_pc = "done" =>
        /\ "RectEdge" \in EdgeTypes =>
              /\ ~HasBezier(segments)
              /\ LineCount(segments) \in {3, 4}
              /\ AllLinesAxisAligned
              /\ ReturnsToStart
        /\ (/\ Len(segments) = 5
            /\ LineCount(segments) = 4
            /\ AllLinesAxisAligned
            /\ ~ReturnsToStart) => EdgeTypes \subseteq {"Line"}


\* the characters of the cell that are not whitespace, in reading order
Glyphs ==
    SelectSeq(CellChars(chars_data, TextCell), LAMBDA c : ~IsWhitespace(c.ch))
\* position in cell_text of its g-th character that is not whitespace
GlyphAt(g) ==
    CHOOSE p \in 1..Len(cell_text) :
        /\ ~IsWhitespace(cell_text[p])
        /\ Cardinality({q \in 1..p : ~IsWhitespace(cell_text[q])}) = g
NoOuterWhitespace ==
    cell_text # <<>> =>
        /\ ~IsWhitespace(cell_text[1])
        /\ ~IsWhitespace(cell_text[Len(cell_text)])
NoWhitespaceRun ==
    \A p \in 1..(Len(cell_text) - 1) :
        ~(IsWhitespace(cell_text[p]) /\ IsWhitespace(cell_text[p + 1]))
LinesSeparatedBySpace ==
    \A g \in 1..(Len(Glyphs) - 1) :
        Abs(Glyphs[g + 1].line_y - Glyphs[g].line_y) > 5 =>
            /\ GlyphAt(g + 1) = GlyphAt(g) + 2
            /\ cell_text[GlyphAt(g) + 1] = Space

\* C23: the plain text of a cell has no leading or trailing whitespace, every
\* internal run of whitespace is a single space, and characters on different
\* lines of the cell (line_y more than 5.0 apart) are separated by a single
\* space.
C23_PlainTextNormalised ==
    text_pc = "done" =>
        /\ NoOuterWhitespace
        /\ NoWhitespaceRun
        /\ LinesSeparatedBySpace


\* the cells that rows() put in the grid of table k
GridCells(k) ==
    {rows[k][r][j] : <<r, j>> \in
        {<<r, j>> \in (1..Len(rows[k])) \X (1..16) :
            j <= Len(rows[k][r]) /\ rows[k][r][j] # None}}
\* a point can have its midpoint test pass in both boxes
BoxesOverlap(a, b) ==
    /\ a[1] < b[3] /\ b[1] < a[3]
    /\ a[2] < b[4] /\ b[2] < a[4]

\* C29: the cells in the row grid of a table produced by
\* intersections_to_cells and cells_to_tables are pairwise non-overlapping,
\* so that every character midpoint is assigned to at most one grid cell.
C29_GridCellsDisjoint ==
    pc = "done" =>
        \A k \in 1..Len(tables) :
            \A a \in GridCells(k), b \in GridCells(k) :
                a # b => ~BoxesOverlap(a, b)


Merged == merge_pc \in {"again", "done"}

\* C21: merging the blocks of merge_chars_into_blocks again, each block
\* taken as one character, returns the same set of blocks.
C21_MergeIdempotent ==
    merge_pc = "done" => Range(remerged) = Range(merged)

\* the blocks that hold input character i
BlocksHolding(i) ==
    {<<k, p>> \in (1..Len(blocks)) \X (1..Len(chars)) :
        p <= Len(blocks[k]) /\ blocks[k][p] = chars[i]}
\* the smallest box around the boxes of a block's characters
UnionBox(block) ==
    LET boxes == {CharBox(block[p]) : p \in 1..Len(block)}
    IN  BoundingBox(CHOOSE v \in {b.left : b \in boxes} : \A b \in boxes : v <= b.left,
                    CHOOSE v \in {b.top : b \in boxes} : \A b \in boxes : v <= b.top,
                    CHOOSE v \in {b.right : b \in boxes} : \A b \in boxes : v >= b.right,
                    CHOOSE v \in {b.bottom : b \in boxes} : \A b \in boxes : v >= b.bottom)

\* C22: every input character is in exactly one returned block, each
\* block's text is the concatenation of its characters' texts and its
\* bounding box is the union of its characters' boxes.
C22_MergePartitions ==
    Merged =>
        /\ \A i \in 1..Len(chars) : Cardinality(BlocksHolding(i)) = 1
        /\ SumSeq([k \in 1..Len(blocks) |-> Len(blocks[k])]) = Len(chars)
        /\ Len(merged) = Len(blocks)
        /\ \A k \in 1..Len(merged) :
              /\ blocks[k] # <<>>
              /\ merged[k].text = Concat([p \in 1..Len(blocks[k]) |-> blocks[k][p].text])
              /\ Len(merged[k].text) = Len(blocks[k])
              /\ merged[k].bbox = UnionBox(blocks[k])

\* three characters given out of reading order, in two blocks: the one on
\* the left alone, the two on the right together
C22_Witness ==
    /\ merge_pc = "again"
    /\ chars = <<create_char("a", 28, 11), create_char("b", 0, 10), create_char("c", 28, 10)>>
    /\ Len(merged) = 2
    /\ merged[1].text = <<"b">>
    /\ merged[2].text = <<"c", "a">>
    /\ merged[2].bbox = BoundingBox(28, 0, 34, 11)

\* C28: in every returned block the text is the concatenation of the
\* block's characters in reading order, the (top, left) sort order of their
\* boxes, as in 'H','e','y' giving "Hey".
C28_BlockTextInReadingOrder ==
    Merged =>
        /\ chars = HeyChars => (Len(merged) = 1 /\ merged[1].text = <<"H", "e", "y">>)
        /\ \A k \in 1..Len(blocks) :
              \A p \in 1..(Len(blocks[k]) - 1) :
                 ~BoxLess([bbox |-> CharBox(blocks[k][p + 1])],
                          [bbox |-> CharBox(blocks[k][p])])

============================================================================
